---- MODULE Spec2Model ----
(***************************************************************************)
(* Model of the project page of observations-to-insights                   *)
(* (src/src/app/project/[id]/page.tsx) and of its store client             *)
(* (src/src/lib/firestore.ts).                                             *)
(*                                                                         *)
(* React state is one variable per useState/useRef.  A handler runs        *)
(* against the state of the render it was created in; the part of an async *)
(* handler after an await runs later, as a step of its own, and still sees *)
(* the values its closure captured.  Each awaited call is a record in      *)
(* `pending` holding what the continuation will read.                      *)
(***************************************************************************)
EXTENDS Integers, Sequences, FiniteSets, TLC

VARIABLES
    db,                     \* TRUE when the Firestore handle is configured
    newObservation,         \* useState('') : text of the new-observation box
    coachingText,           \* useState<string|null> : None or Some(text)
    loadingCoaching,        \* useState(false)
    coachingTimerRef,       \* useRef : index into timers, 0 for null
    coachingAbortRef,       \* useRef : index into controllers, 0 for null
    timers,                 \* every setTimeout armed so far, with its state
    controllers,            \* every AbortController / coaching request so far
    coachingFrom,           \* history: the request whose response is displayed
    observations,           \* useState<Observation[]>
    harms,                  \* useState<Harm[]>
    storeObservations,      \* documents of collection 'observations'
    storeHarms,             \* documents of collection 'harms'
    harmSuggestions,        \* useState<Record<string, HarmSuggestion[]>>
    loadingHarmSuggestions, \* useState<Record<string, boolean>>
    customHarmInputs,       \* useState<Record<string, string>>
    detailItem,             \* useState<DetailItem|null> : 0 for null
    criteria,               \* useState<Criterion[]>
    strategies,             \* useState<Strategy[]>
    criterionSuggestions,   \* useState<Record<string, CriterionSuggestion[]>>
    loadingCriterionSuggestions, \* useState<Record<string, boolean>>
    strategySuggestions,    \* useState<Record<string, StrategySuggestion[]>>
    loadingStrategySuggestions,  \* useState<Record<string, boolean>>
    customCriterionInputs,  \* useState<Record<string, string>>
    customStrategyInputs,   \* useState<Record<string, string>>
    storeCriteria,          \* documents of collection 'criteria'
    storeStrategies,        \* documents of collection 'strategies'
    projectName,            \* useState('') : the name shown in the header
    isEditingName,          \* useState(false) : the header shows the name input
    isArchived,             \* useState(false)
    storeProject,           \* the document of this project in 'projects'
    clipboard,              \* what navigator.clipboard holds: None or Some(item)
    copyFeedback,           \* useState<string|null> : None or Some(label)
    copyTimers,             \* timers that will clear copyFeedback, not yet fired
    errorMessage,           \* useState<string|null> : None or Some(banner)
    errorTimers,            \* auto-dismiss timers of the banner not yet fired
    pending,                \* awaited calls that have not settled yet
    orderWrites,            \* queue of order batches not yet applied
    opCount,                \* number of store calls started
    fetchCount,             \* number of suggestion fetches started
    nextId,                 \* source of document ids and random UUIDs
    now,                    \* the clock read by new Date()
    history,                \* history: what the last step did, and counters
    request,                \* route.ts : None or Some(the body of the request)
    filledPrompt,           \* route.ts : None or Some(the prompt sent on)
    responseText,           \* route.ts : the text of the completion being parsed
    suggestions             \* route.ts : None or Some(list), the JSON returned

coachVars == <<newObservation, coachingText, loadingCoaching, coachingTimerRef,
               coachingAbortRef, timers, controllers, coachingFrom>>
treeVars == <<observations, harms, storeObservations, storeHarms>>
suggVars == <<harmSuggestions, loadingHarmSuggestions, customHarmInputs, detailItem>>
deepVars == <<criteria, strategies, criterionSuggestions,
              loadingCriterionSuggestions, strategySuggestions,
              loadingStrategySuggestions>>
asyncVars == <<pending, orderWrites, opCount, fetchCount, nextId, now>>
inputVars == <<customCriterionInputs, customStrategyInputs>>
deepStoreVars == <<storeCriteria, storeStrategies>>
copyVars == <<clipboard, copyFeedback, copyTimers>>
routeVars == <<request, filledPrompt, responseText, suggestions>>
headerVars == <<projectName, isEditingName, isArchived>>
projectVars == <<headerVars, copyVars>>
bannerVars == <<errorMessage, errorTimers>>
projVars == <<inputVars, deepStoreVars, projectVars, storeProject, bannerVars>>
vars == <<db, coachVars, treeVars, suggVars, deepVars, asyncVars, history, projVars,
         routeVars>>

----------------------------------------------------------------------------
(* Bounds of the model *)

\* Debounce timers armed in one run.
MaxTimers == 2
\* Store calls started in one run.
MaxOps == 2
\* Suggestion fetches started in one run.
MaxFetches == 2

\* Branches and drags of one run.
MaxMoves == 3
\* Copies to the clipboard in one run.
MaxCopies == 1

(* Program constants *)

\* text.trim().length < 10 : the minimum length that is coached
MinCoachingLength == 10

----------------------------------------------------------------------------
(* Optional values: null/undefined is the empty sequence *)

None == <<>>
Some(x) == <<x>>
IsSome(o) == o # <<>>
Get(o) == o[1]

(* Objects used as maps (Record<string, T>): functions on the keys present *)

Has(f, k) == k \in DOMAIN f
Put(f, k, v) == [x \in (DOMAIN f) \cup {k} |-> IF x = k THEN v ELSE f[x]]
\* f[k] read as a condition: undefined and false are both falsy
Truthy(f, k) == Has(f, k) /\ f[k]
\* f[k] read as a count: undefined is zero
Count(f, k) == IF Has(f, k) THEN f[k] ELSE 0

Range(q) == {q[i] : i \in 1..Len(q)}

(* Texts are sequences of characters *)

IsSpace(c) == c = " "

RECURSIVE TrimStart(_)
TrimStart(s) ==
    IF s = <<>> THEN s
    ELSE IF IsSpace(Head(s)) THEN TrimStart(Tail(s)) ELSE s

RECURSIVE TrimEnd(_)
TrimEnd(s) ==
    IF s = <<>> THEN s
    ELSE IF IsSpace(s[Len(s)]) THEN TrimEnd(SubSeq(s, 1, Len(s) - 1)) ELSE s

\* String.prototype.trim
Trim(s) == TrimEnd(TrimStart(s))

Blank == <<" ", " ">>
Nine == <<"a", "b", "c", "d", "e", "f", "g", "h", "i">>
Ten == Nine \o <<"j">>
\* eleven characters, nine after trimming
PaddedNine == <<" ">> \o Nine \o <<" ">>
\* twelve characters, ten after trimming
PaddedTen == <<" ">> \o Ten \o <<" ">>
Eleven == Ten \o <<"k">>

\* What the user may have in the new-observation box after a change event.
InputTexts == {<<>>, Blank, PaddedNine, Ten, PaddedTen}

GOOD == <<"G", "O", "O", "D">>
Tip == <<"t", "i", "p">>
\* data.suggestions of a coaching response
CoachingResults == {<<>>, <<GOOD>>, <<Tip>>, <<Tip, GOOD>>}

----------------------------------------------------------------------------
(* Records *)

\* An Observation object of the in-memory collection.
NewObservation(id, content, order, createdAt) ==
    [id |-> id, content |-> content, order |-> order, title |-> None,
     createdAt |-> createdAt]

\* A Harm object of the in-memory collection.
\* `via` is history: the suggestion whose acceptance created it, 0 for none.
NewHarm(id, obsId, content, createdAt) ==
    [id |-> id, observationIds |-> {obsId}, content |-> content,
     createdAt |-> createdAt, via |-> 0]

\* An awaited call: what was asked and what its continuation captured.
BlankCall ==
    [kind |-> "", n |-> 0, target |-> 0, content |-> <<>>, sid |-> 0,
     snapObservations |-> <<>>, snapHarms |-> <<>>, idx |-> 0, order |-> None,
     snapCriteria |-> <<>>, snapStrategies |-> <<>>, coll |-> "", field |-> "",
     raw |-> <<>>, isArchived |-> FALSE, newArchived |-> FALSE]

\* The event recorded for history.
Event(kind, a, b) == [kind |-> kind, a |-> a, b |-> b]

----------------------------------------------------------------------------
(* The error banner *)

\* error instanceof Error ? error.message : ''  : the empty string stands for a
\* thrown value that is no Error, or an Error without a message.
ErrorDetails == {"", "unavailable"}

\* detail ? `${msg} (${detail})` : msg
BannerText(msg, detail) == IF detail # "" THEN <<msg, detail>> ELSE <<msg>>

\* showError: set the banner and arm its auto-dismiss timer.
showError(msg, detail) ==
    /\ errorMessage' = Some(BannerText(msg, detail))
    /\ errorTimers' = errorTimers + 1

\* One of the timers armed by showError elapses: setErrorMessage(null).
errorTimerFire ==
    /\ errorTimers > 0
    /\ errorMessage' = None
    /\ errorTimers' = errorTimers - 1
    /\ UNCHANGED <<db, routeVars, coachVars, treeVars, suggVars, deepVars, asyncVars, history,
                   inputVars, deepStoreVars, projectVars, storeProject>>

\* The close button of the banner.
dismissError ==
    /\ IsSome(errorMessage)
    /\ errorMessage' = None
    /\ UNCHANGED <<db, routeVars, coachVars, treeVars, suggVars, deepVars, asyncVars, history,
                   inputVars, deepStoreVars, projectVars, storeProject, errorTimers>>

(* The project document *)

\* useState('Untitled Project')
Untitled == <<"U">>
\* The name the project was created with.
ProjectTitle == <<"P">>

\* updateProject: updateDoc(docRef, {...data, updatedAt: serverTimestamp()})
updateProject(doc, data, at) ==
    [k \in DOMAIN doc |->
        IF k = "updatedAt" THEN at
        ELSE IF k \in DOMAIN data THEN data[k] ELSE doc[k]]

----------------------------------------------------------------------------
(* Observation coaching loop *)

\* if (coachingTimerRef.current) clearTimeout(coachingTimerRef.current)
ClearPendingTimerSkipped(ts, ref) == ts

ClearPendingTimer(ts, ref) ==
    IF ref # 0 /\ ts[ref].state = "armed"
    THEN [ts EXCEPT ![ref].state = "cleared"]
    ELSE ts

\* if (coachingAbortRef.current) coachingAbortRef.current.abort()
AbortInFlight(cs, ref) ==
    IF ref # 0 THEN [cs EXCEPT ![ref].aborted = TRUE] ELSE cs

NeedsCoachingUntrimmed(text) ==
    ~(Trim(text) = <<>> \/ Len(text) < MinCoachingLength)

\* !text.trim() || text.trim().length < 10  is false
NeedsCoaching(text) ==
    ~(Trim(text) = <<>> \/ Len(Trim(text)) < MinCoachingLength)

\* if (abortController.signal.aborted) return;  does not return
ResponseAppliesAlways(c) == TRUE

ResponseApplies(c) == ~c.aborted

\* const coaching = results[0] || ''
FirstResult(results) == IF results = <<>> THEN <<>> ELSE results[1]

cancelCoaching ==
    /\ timers' = ClearPendingTimer(timers, coachingTimerRef)
    /\ coachingTimerRef' = 0
    /\ controllers' = AbortInFlight(controllers, coachingAbortRef)
    /\ coachingAbortRef' = 0
    /\ coachingText' = None
    /\ coachingFrom' = 0
    /\ loadingCoaching' = FALSE

handleObservationChange(text) ==
    /\ NeedsCoaching(text) => Len(timers) < MaxTimers
    /\ newObservation' = text
    /\ coachingText' = None
    /\ coachingFrom' = 0
    /\ controllers' = AbortInFlight(controllers, coachingAbortRef)
    /\ IF ~NeedsCoaching(text)
       THEN /\ timers' = ClearPendingTimer(timers, coachingTimerRef)
            /\ loadingCoaching' = FALSE
            /\ UNCHANGED coachingTimerRef
       ELSE /\ timers' = Append(ClearPendingTimer(timers, coachingTimerRef),
                                [text |-> text, state |-> "armed"])
            /\ coachingTimerRef' = Len(timers) + 1
            /\ UNCHANGED loadingCoaching
    /\ UNCHANGED <<db, routeVars, coachingAbortRef, treeVars, suggVars, asyncVars, history>>
    /\ UNCHANGED deepVars
    /\ UNCHANGED projVars

\* The callback given to setTimeout, up to its await.
coachingTimerFire(i) ==
    /\ timers[i].state = "armed"
    /\ timers' = [timers EXCEPT ![i].state = "fired"]
    /\ controllers' = Append(controllers,
                             [text |-> Trim(timers[i].text), aborted |-> FALSE,
                              settled |-> FALSE, timer |-> i])
    /\ coachingAbortRef' = Len(controllers) + 1
    /\ loadingCoaching' = TRUE
    /\ UNCHANGED <<db, routeVars, newObservation, coachingText, coachingFrom,
                   coachingTimerRef, treeVars, suggVars, asyncVars, history>>
    /\ UNCHANGED deepVars
    /\ UNCHANGED projVars

\* The callback after  await fetchSuggestions(...)  resolved.
coachingResponse(k, results) ==
    /\ ~controllers[k].settled
    /\ controllers' = [controllers EXCEPT ![k].settled = TRUE]
    /\ IF ~ResponseApplies(controllers[k])
       THEN UNCHANGED <<coachingText, coachingFrom, loadingCoaching>>
       ELSE /\ IF FirstResult(results) # <<>> /\ FirstResult(results) # GOOD
               THEN coachingText' = Some(FirstResult(results)) /\ coachingFrom' = k
               ELSE coachingText' = None /\ coachingFrom' = 0
            /\ loadingCoaching' = FALSE
    /\ UNCHANGED <<db, routeVars, newObservation, coachingTimerRef, coachingAbortRef, timers,
                   treeVars, suggVars, asyncVars, history>>
    /\ UNCHANGED deepVars
    /\ UNCHANGED projVars

coachingErrorKeepsLoading(k) ==
    /\ ~controllers[k].settled
    /\ controllers' = [controllers EXCEPT ![k].settled = TRUE]
    /\ UNCHANGED <<db, routeVars, newObservation, coachingText, coachingFrom, coachingTimerRef,
                   coachingAbortRef, timers, loadingCoaching, treeVars, suggVars, asyncVars,
                   history>>
    /\ UNCHANGED deepVars
    /\ UNCHANGED projVars

\* The callback after  await fetchSuggestions(...)  threw.
coachingError(k) ==
    /\ ~controllers[k].settled
    /\ controllers' = [controllers EXCEPT ![k].settled = TRUE]
    /\ IF ~ResponseApplies(controllers[k])
       THEN UNCHANGED loadingCoaching
       ELSE loadingCoaching' = FALSE
    /\ UNCHANGED <<db, routeVars, newObservation, coachingText, coachingFrom, coachingTimerRef,
                   coachingAbortRef, timers, treeVars, suggVars, asyncVars, history>>
    /\ UNCHANGED deepVars
    /\ UNCHANGED projVars

----------------------------------------------------------------------------
(* Adding an observation *)

ReturnNullAfterClearing ==
    /\ newObservation' = <<>>
    /\ cancelCoaching
    /\ history' = [history EXCEPT !.last = Event("addNothing", 0, 0),
                                  !.returned = None]
    /\ UNCHANGED <<db, routeVars, treeVars, suggVars, deepVars, asyncVars, projVars>>

\* if (!newObservation.trim()) return null;  nothing has been set yet.
ReturnNull ==
    /\ history' = [history EXCEPT !.last = Event("addNothing", 0, 0),
                                  !.returned = None]
    /\ UNCHANGED <<db, routeVars, coachVars, treeVars, suggVars, deepVars, asyncVars, projVars>>

\* handleAddObservation, up to  await createObservation(...)  (all of it when
\* the input is blank or no store is configured).
handleAddObservation ==
    IF Trim(newObservation) = <<>>
    THEN ReturnNull
    ELSE
    /\ opCount < MaxOps
    /\ newObservation' = <<>>
    /\ cancelCoaching
    /\ opCount' = opCount + 1
    /\ IF db
       THEN /\ pending' = pending \cup
                  {[BlankCall EXCEPT !.kind = "createObservation",
                                     !.n = opCount + 1,
                                     !.content = Trim(newObservation),
                                     !.raw = newObservation,
                                     !.snapObservations = observations]}
            /\ UNCHANGED <<observations, nextId, now, history>>
       ELSE /\ observations' = Append(observations,
                  NewObservation(nextId, Trim(newObservation), None, now))
            /\ nextId' = nextId + 1
            /\ now' = now + 1
            /\ history' = [history EXCEPT !.returned = Some(nextId)]
            /\ UNCHANGED pending
    /\ UNCHANGED <<db, routeVars, harms, storeObservations, storeHarms, suggVars, orderWrites,
                   fetchCount>>
    /\ UNCHANGED deepVars
    /\ UNCHANGED projVars

\* createObservation resolved: the document exists, and the continuation of
\* handleAddObservation appends to the collection its closure captured.
createObservationResolved(op) ==
    /\ op.kind = "createObservation"
    /\ pending' = pending \ {op}
    /\ storeObservations' = storeObservations \cup
           {[id |-> nextId, content |-> op.content, order |-> None, createdAt |-> now]}
    /\ observations' = Append(op.snapObservations,
                              NewObservation(nextId, op.content, None, now))
    /\ nextId' = nextId + 1
    /\ now' = now + 1
    /\ history' = [history EXCEPT !.returned = Some(nextId)]
    /\ UNCHANGED <<db, routeVars, coachVars, harms, storeHarms, suggVars, orderWrites, opCount,
                   fetchCount>>
    /\ UNCHANGED deepVars
    /\ storeProject' = updateProject(storeProject, <<>>, now)
    /\ UNCHANGED <<inputVars, deepStoreVars, projectVars, bannerVars>>

createObservationRejectedKeepsCleared(op) ==
    /\ op.kind = "createObservation"
    /\ pending' = pending \ {op}
    /\ newObservation' = newObservation
    /\ history' = [history EXCEPT
           !.last = Event("addObservationFailed", 0, <<op.raw, op.n>>),
           !.returned = None, !.writeFailed = TRUE]
    /\ UNCHANGED <<db, routeVars, coachingText, loadingCoaching, coachingTimerRef,
                   coachingAbortRef, timers, controllers, coachingFrom, treeVars,
                   suggVars, orderWrites, opCount, fetchCount, nextId, now>>
    /\ UNCHANGED deepVars
    /\ \E detail \in ErrorDetails : showError("Failed to save observation", detail)
    /\ UNCHANGED <<inputVars, deepStoreVars, projectVars, storeProject>>

\* createObservation threw: the catch block shows the banner and puts the
\* trimmed text back into the box.
createObservationRejected(op) ==
    /\ op.kind = "createObservation"
    /\ pending' = pending \ {op}
    /\ newObservation' = op.content
    /\ history' = [history EXCEPT
           !.last = Event("addObservationFailed", 0, <<op.raw, op.n>>),
           !.returned = None, !.writeFailed = TRUE]
    /\ UNCHANGED <<db, routeVars, coachingText, loadingCoaching, coachingTimerRef,
                   coachingAbortRef, timers, controllers, coachingFrom, treeVars,
                   suggVars, orderWrites, opCount, fetchCount, nextId, now>>
    /\ UNCHANGED deepVars
    /\ \E detail \in ErrorDetails : showError("Failed to save observation", detail)
    /\ UNCHANGED <<inputVars, deepStoreVars, projectVars, storeProject>>

----------------------------------------------------------------------------
(* Derived lookups *)

HarmsOfAny(hs, obsId) == hs

\* harms.filter(h => h.observationIds.includes(obsId))
HarmsOf(hs, obsId) == SelectSeq(hs, LAMBDA h : obsId \in h.observationIds)

getHarmsForObservation(obsId) == HarmsOf(harms, obsId)

CriteriaOfAny(cs, harmId) == cs

\* criteria.filter(c => c.harmId === harmId)
CriteriaOf(cs, harmId) == SelectSeq(cs, LAMBDA c : c.harmId = harmId)

getCriteriaForHarm(harmId) == CriteriaOf(criteria, harmId)

\* strategies.filter(s => s.criterionId === criterionId)
StrategiesOf(ss, criterionId) == SelectSeq(ss, LAMBDA s : s.criterionId = criterionId)

getStrategiesForCriterion(criterionId) == StrategiesOf(strategies, criterionId)

\* observations.find(o => o.id === obsId)  finds something
ObservationKnown(obs, obsId) == \E p \in 1..Len(obs) : obs[p].id = obsId

ObservationIds == {observations[p].id : p \in 1..Len(observations)}

----------------------------------------------------------------------------
(* Suggestion cache: lazy fetch of harm suggestions *)

HarmA == <<"x">>
HarmB == <<"y">>

\* A harm no suggestion is worded like.
HarmC == <<"z">>
\* data.suggestions of a harms response
FetchResults == {<<>>, <<HarmA, HarmB>>}

\* suggestions.map(content => ({ id: crypto.randomUUID(), content, selected: false }))
AsSuggestions(contents, firstId) ==
    [i \in 1..Len(contents) |->
        [id |-> firstId + i - 1, content |-> contents[i], selected |-> FALSE]]

\* unselected.slice(0, 3) : how many candidates the panel shows at most
PanelSize == 3

UnselectedAll(list) == list

\* suggestions?.filter(s => !s.selected) || []
Unselected(list) == SelectSeq(list, LAMBDA sg : ~sg.selected)

\* SuggestionPanel: the candidates shown for a node, none if the node has no
\* list yet.
Visible(sugg, parentId) ==
    IF ~Has(sugg, parentId) THEN <<>>
    ELSE LET unselected == Unselected(sugg[parentId])
         IN  SubSeq(unselected, 1,
                    IF Len(unselected) < PanelSize THEN Len(unselected) ELSE PanelSize)

\* onClick={() => onToggle(suggestion.id)} : the panel offers this suggestion.
Offered(sugg, parentId, sid) ==
    \E i \in 1..Len(Visible(sugg, parentId)) : Visible(sugg, parentId)[i].id = sid

\* The test a focus handler makes on the state its closure holds:
\* if (!harmSuggestions[obsId] && !loadingHarmSuggestions[obsId]) and the
\* observation is found.
FocusStartsFetch(sugg, loadingMap, obs, obsId) ==
    /\ ~Has(sugg, obsId)
    /\ ~Truthy(loadingMap, obsId)
    /\ ObservationKnown(obs, obsId)

\* The calls of handleHarmInputFocus(obsId) that one commit makes when the
\* detail panel opens: the auto-load effect makes one, and the harm input,
\* rendered with autoFocus when the observation has no harm, makes another
\* through onFocus.  Both are closures of the same render.
FocusCallsOnOpen(obsId) ==
    IF getHarmsForObservation(obsId) = <<>> THEN 2 ELSE 1

FetchCalls(kind, obsId, first, count) ==
    {[BlankCall EXCEPT !.kind = kind, !.n = n, !.target = obsId] :
        n \in first..(first + count - 1)}

\* `count` calls of handleHarmInputFocus(obsId) made from one render, each up
\* to its await.
StartInitialFetches(obsId, count) ==
    IF FocusStartsFetch(harmSuggestions, loadingHarmSuggestions, observations, obsId)
    THEN /\ fetchCount + count <= MaxFetches
         /\ loadingHarmSuggestions' = Put(loadingHarmSuggestions, obsId, TRUE)
         /\ pending' = pending \cup FetchCalls("fetchHarms", obsId, fetchCount + 1, count)
         /\ fetchCount' = fetchCount + count
         /\ history' = [history EXCEPT
                !.initialFetches = Put(@, obsId, Count(@, obsId) + count),
                !.last = Event("focus", obsId, count)]
    ELSE /\ history' = [history EXCEPT !.last = Event("focus", obsId, 0)]
         /\ UNCHANGED <<loadingHarmSuggestions, pending, fetchCount>>

\* The harm input of the detail panel gets the focus.
handleHarmInputFocus(obsId) ==
    /\ StartInitialFetches(obsId, 1)
    /\ UNCHANGED <<db, routeVars, coachVars, treeVars, harmSuggestions, customHarmInputs,
                   detailItem, orderWrites, opCount, nextId, now>>
    /\ UNCHANGED deepVars
    /\ UNCHANGED projVars

\* A card is clicked: setDetailItem, then the commit of the detail panel.
openDetail(obsId) ==
    /\ detailItem = 0
    /\ detailItem' = obsId
    /\ StartInitialFetches(obsId, FocusCallsOnOpen(obsId))
    /\ UNCHANGED <<db, routeVars, coachVars, treeVars, harmSuggestions, customHarmInputs,
                   orderWrites, opCount, nextId, now>>
    /\ UNCHANGED deepVars
    /\ UNCHANGED projVars

\* "Back to board": setDetailItem(null)
closeDetail ==
    /\ detailItem # 0
    /\ detailItem' = 0
    /\ history' = [history EXCEPT !.last = Event("close", 0, 0)]
    /\ UNCHANGED <<db, routeVars, coachVars, treeVars, harmSuggestions, loadingHarmSuggestions,
                   customHarmInputs, asyncVars>>
    /\ UNCHANGED deepVars
    /\ UNCHANGED projVars

LoadingClearedSkipped(loadingMap, obsId) == loadingMap

\* The finally block: setLoadingHarmSuggestions(prev => ({...prev, [obsId]: false}))
LoadingCleared(loadingMap, obsId) == Put(loadingMap, obsId, FALSE)

fetchHarmsResolvedOverwrites(op, contents) ==
    /\ op.kind = "fetchHarms"
    /\ pending' = pending \ {op}
    /\ harmSuggestions' = Put(<<>>, op.target, AsSuggestions(contents, nextId))
    /\ loadingHarmSuggestions' = LoadingCleared(loadingHarmSuggestions, op.target)
    /\ nextId' = nextId + Len(contents)
    /\ history' = [history EXCEPT !.last = Event("fetched", op.target, contents)]
    /\ UNCHANGED <<db, routeVars, coachVars, treeVars, customHarmInputs, detailItem,
                   orderWrites, opCount, fetchCount, now>>
    /\ UNCHANGED deepVars
    /\ UNCHANGED projVars

\* handleHarmInputFocus after  await fetchSuggestions(...)  resolved.
fetchHarmsResolved(op, contents) ==
    /\ op.kind = "fetchHarms"
    /\ pending' = pending \ {op}
    /\ harmSuggestions' = Put(harmSuggestions, op.target, AsSuggestions(contents, nextId))
    /\ loadingHarmSuggestions' = LoadingCleared(loadingHarmSuggestions, op.target)
    /\ nextId' = nextId + Len(contents)
    /\ history' = [history EXCEPT !.last = Event("fetched", op.target, contents)]
    /\ UNCHANGED <<db, routeVars, coachVars, treeVars, customHarmInputs, detailItem,
                   orderWrites, opCount, fetchCount, now>>
    /\ UNCHANGED deepVars
    /\ UNCHANGED projVars

\* handleHarmInputFocus after  await fetchSuggestions(...)  threw.
fetchHarmsRejected(op) ==
    /\ op.kind = "fetchHarms"
    /\ pending' = pending \ {op}
    /\ harmSuggestions' = Put(harmSuggestions, op.target, <<>>)
    /\ loadingHarmSuggestions' = LoadingCleared(loadingHarmSuggestions, op.target)
    /\ history' = [history EXCEPT !.last = Event("fetchFailed", op.target, 0)]
    /\ UNCHANGED <<db, routeVars, coachVars, treeVars, customHarmInputs, detailItem,
                   orderWrites, opCount, fetchCount, nextId, now>>
    /\ UNCHANGED deepVars
    /\ UNCHANGED projVars

\* generateMoreHarmSuggestions up to its await.
generateMoreHarmSuggestions(obsId) ==
    /\ ObservationKnown(observations, obsId)
    /\ ~Truthy(loadingHarmSuggestions, obsId)
    /\ fetchCount < MaxFetches
    /\ loadingHarmSuggestions' = Put(loadingHarmSuggestions, obsId, TRUE)
    /\ pending' = pending \cup FetchCalls("moreHarms", obsId, fetchCount + 1, 1)
    /\ fetchCount' = fetchCount + 1
    /\ history' = [history EXCEPT !.last = Event("more", obsId, 0)]
    /\ UNCHANGED <<db, routeVars, coachVars, treeVars, harmSuggestions, customHarmInputs,
                   detailItem, orderWrites, opCount, nextId, now>>
    /\ UNCHANGED deepVars
    /\ UNCHANGED projVars

\* generateMoreHarmSuggestions after its await resolved:
\* [...(prev[obsId] || []), ...new]
moreHarmsResolved(op, contents) ==
    /\ op.kind = "moreHarms"
    /\ pending' = pending \ {op}
    /\ harmSuggestions' = Put(harmSuggestions, op.target,
           (IF Has(harmSuggestions, op.target) THEN harmSuggestions[op.target] ELSE <<>>)
               \o AsSuggestions(contents, nextId))
    /\ loadingHarmSuggestions' = LoadingCleared(loadingHarmSuggestions, op.target)
    /\ nextId' = nextId + Len(contents)
    /\ history' = [history EXCEPT !.last = Event("moreFetched", op.target, contents)]
    /\ UNCHANGED <<db, routeVars, coachVars, treeVars, customHarmInputs, detailItem,
                   orderWrites, opCount, fetchCount, now>>
    /\ UNCHANGED deepVars
    /\ UNCHANGED projVars

\* generateMoreHarmSuggestions after its await threw: only the finally block.
moreHarmsRejected(op) ==
    /\ op.kind = "moreHarms"
    /\ pending' = pending \ {op}
    /\ loadingHarmSuggestions' = LoadingCleared(loadingHarmSuggestions, op.target)
    /\ history' = [history EXCEPT !.last = Event("moreFailed", op.target, 0)]
    /\ UNCHANGED <<db, routeVars, coachVars, treeVars, harmSuggestions, customHarmInputs,
                   detailItem, orderWrites, opCount, fetchCount, nextId, now>>
    /\ UNCHANGED deepVars
    /\ UNCHANGED projVars

----------------------------------------------------------------------------
(* Suggestion cache: criteria of a harm, strategies of a criterion *)

\* A Criterion object of the in-memory collection.
NewCriterion(id, harmId, content) == [id |-> id, harmId |-> harmId, content |-> content]

\* A Strategy object of the in-memory collection.
\* strategyType is None for a strategy typed by the user.
NewStrategy(id, criterionId, content, strategyType) ==
    [id |-> id, criterionId |-> criterionId, content |-> content,
     strategyType |-> strategyType]

\* The document of a criterion or of a strategy: the fields addDoc writes.
CriterionDoc(c) == c
StrategyDoc(s) == s

\* harms.find(h => h.id === harmId)  finds something
HarmKnown(hs, harmId) == \E p \in 1..Len(hs) : hs[p].id = harmId

\* criteria.find(c => c.id === criterionId)  finds something
CriterionKnown(cs, criterionId) == \E p \in 1..Len(cs) : cs[p].id = criterionId

CriterionIds == {criteria[p].id : p \in 1..Len(criteria)}

\* suggestions.map(content => ({ id, content, type: 'confront', selected: false }))
AsStrategySuggestions(contents, firstId) ==
    [i \in 1..Len(contents) |->
        [id |-> firstId + i - 1, content |-> contents[i], type |-> "confront",
         selected |-> FALSE]]

\* handleCriterionInputFocus(harmId) up to its await.
handleCriterionInputFocus(harmId) ==
    /\ IF /\ ~Has(criterionSuggestions, harmId)
          /\ ~Truthy(loadingCriterionSuggestions, harmId)
          /\ HarmKnown(harms, harmId)
       THEN /\ fetchCount < MaxFetches
            /\ loadingCriterionSuggestions' = Put(loadingCriterionSuggestions, harmId, TRUE)
            /\ pending' = pending \cup FetchCalls("fetchCriteria", harmId, fetchCount + 1, 1)
            /\ fetchCount' = fetchCount + 1
            /\ history' = [history EXCEPT !.last = Event("focusCriterion", harmId, 1)]
       ELSE /\ history' = [history EXCEPT !.last = Event("focusCriterion", harmId, 0)]
            /\ UNCHANGED <<loadingCriterionSuggestions, pending, fetchCount>>
    /\ UNCHANGED <<db, routeVars, coachVars, treeVars, suggVars, criteria, strategies, criterionSuggestions,
                   strategySuggestions, loadingStrategySuggestions, orderWrites, opCount, nextId, now>>
    /\ UNCHANGED projVars

\* handleCriterionInputFocus after  await fetchSuggestions(...)  resolved.
fetchCriteriaResolved(op, contents) ==
    /\ op.kind = "fetchCriteria"
    /\ pending' = pending \ {op}
    /\ criterionSuggestions' = Put(criterionSuggestions, op.target, AsSuggestions(contents, nextId))
    /\ loadingCriterionSuggestions' = LoadingCleared(loadingCriterionSuggestions, op.target)
    /\ nextId' = nextId + Len(contents)
    /\ history' = [history EXCEPT !.last = Event("fetchedCriteria", op.target, contents)]
    /\ UNCHANGED <<db, routeVars, coachVars, treeVars, suggVars, criteria, strategies,
                   strategySuggestions, loadingStrategySuggestions, orderWrites, opCount, fetchCount, now>>
    /\ UNCHANGED projVars

\* handleCriterionInputFocus after  await fetchSuggestions(...)  threw.
fetchCriteriaRejected(op) ==
    /\ op.kind = "fetchCriteria"
    /\ pending' = pending \ {op}
    /\ criterionSuggestions' = Put(criterionSuggestions, op.target, <<>>)
    /\ loadingCriterionSuggestions' = LoadingCleared(loadingCriterionSuggestions, op.target)
    /\ history' = [history EXCEPT !.last = Event("fetchCriteriaFailed", op.target, 0)]
    /\ UNCHANGED <<db, routeVars, coachVars, treeVars, suggVars, criteria, strategies,
                   strategySuggestions, loadingStrategySuggestions, orderWrites, opCount, fetchCount, nextId, now>>
    /\ UNCHANGED projVars

\* generateMoreCriterionSuggestions up to its await.
generateMoreCriterionSuggestions(harmId) ==
    /\ HarmKnown(harms, harmId)
    /\ ~Truthy(loadingCriterionSuggestions, harmId)
    /\ fetchCount < MaxFetches
    /\ loadingCriterionSuggestions' = Put(loadingCriterionSuggestions, harmId, TRUE)
    /\ pending' = pending \cup FetchCalls("moreCriteria", harmId, fetchCount + 1, 1)
    /\ fetchCount' = fetchCount + 1
    /\ history' = [history EXCEPT !.last = Event("moreCriteria", harmId, 0)]
    /\ UNCHANGED <<db, routeVars, coachVars, treeVars, suggVars, criteria, strategies, criterionSuggestions,
                   strategySuggestions, loadingStrategySuggestions, orderWrites, opCount, nextId, now>>
    /\ UNCHANGED projVars

\* generateMoreCriterionSuggestions after its await resolved.
moreCriteriaResolved(op, contents) ==
    /\ op.kind = "moreCriteria"
    /\ pending' = pending \ {op}
    /\ criterionSuggestions' = Put(criterionSuggestions, op.target,
           (IF Has(criterionSuggestions, op.target) THEN criterionSuggestions[op.target] ELSE <<>>)
               \o AsSuggestions(contents, nextId))
    /\ loadingCriterionSuggestions' = LoadingCleared(loadingCriterionSuggestions, op.target)
    /\ nextId' = nextId + Len(contents)
    /\ history' = [history EXCEPT !.last = Event("moreCriteriaFetched", op.target, contents)]
    /\ UNCHANGED <<db, routeVars, coachVars, treeVars, suggVars, criteria, strategies,
                   strategySuggestions, loadingStrategySuggestions, orderWrites, opCount, fetchCount, now>>
    /\ UNCHANGED projVars

\* generateMoreCriterionSuggestions after its await threw: only the finally block.
moreCriteriaRejected(op) ==
    /\ op.kind = "moreCriteria"
    /\ pending' = pending \ {op}
    /\ loadingCriterionSuggestions' = LoadingCleared(loadingCriterionSuggestions, op.target)
    /\ history' = [history EXCEPT !.last = Event("moreCriteriaFailed", op.target, 0)]
    /\ UNCHANGED <<db, routeVars, coachVars, treeVars, suggVars, criteria, strategies, criterionSuggestions,
                   strategySuggestions, loadingStrategySuggestions, orderWrites, opCount, fetchCount, nextId, now>>
    /\ UNCHANGED projVars

\* handleStrategyInputFocus(criterionId) up to its await.
handleStrategyInputFocus(criterionId) ==
    /\ IF /\ ~Has(strategySuggestions, criterionId)
          /\ ~Truthy(loadingStrategySuggestions, criterionId)
          /\ CriterionKnown(criteria, criterionId)
       THEN /\ fetchCount < MaxFetches
            /\ loadingStrategySuggestions' = Put(loadingStrategySuggestions, criterionId, TRUE)
            /\ pending' = pending \cup FetchCalls("fetchStrategies", criterionId, fetchCount + 1, 1)
            /\ fetchCount' = fetchCount + 1
            /\ history' = [history EXCEPT !.last = Event("focusStrategy", criterionId, 1)]
       ELSE /\ history' = [history EXCEPT !.last = Event("focusStrategy", criterionId, 0)]
            /\ UNCHANGED <<loadingStrategySuggestions, pending, fetchCount>>
    /\ UNCHANGED <<db, routeVars, coachVars, treeVars, suggVars, criteria, strategies, strategySuggestions,
                   criterionSuggestions, loadingCriterionSuggestions, orderWrites, opCount, nextId, now>>
    /\ UNCHANGED projVars

\* handleStrategyInputFocus after  await fetchSuggestions(...)  resolved.
fetchStrategiesResolved(op, contents) ==
    /\ op.kind = "fetchStrategies"
    /\ pending' = pending \ {op}
    /\ strategySuggestions' = Put(strategySuggestions, op.target, AsStrategySuggestions(contents, nextId))
    /\ loadingStrategySuggestions' = LoadingCleared(loadingStrategySuggestions, op.target)
    /\ nextId' = nextId + Len(contents)
    /\ history' = [history EXCEPT !.last = Event("fetchedStrategies", op.target, contents)]
    /\ UNCHANGED <<db, routeVars, coachVars, treeVars, suggVars, criteria, strategies,
                   criterionSuggestions, loadingCriterionSuggestions, orderWrites, opCount, fetchCount, now>>
    /\ UNCHANGED projVars

\* handleStrategyInputFocus after  await fetchSuggestions(...)  threw.
fetchStrategiesRejected(op) ==
    /\ op.kind = "fetchStrategies"
    /\ pending' = pending \ {op}
    /\ strategySuggestions' = Put(strategySuggestions, op.target, <<>>)
    /\ loadingStrategySuggestions' = LoadingCleared(loadingStrategySuggestions, op.target)
    /\ history' = [history EXCEPT !.last = Event("fetchStrategiesFailed", op.target, 0)]
    /\ UNCHANGED <<db, routeVars, coachVars, treeVars, suggVars, criteria, strategies,
                   criterionSuggestions, loadingCriterionSuggestions, orderWrites, opCount, fetchCount, nextId, now>>
    /\ UNCHANGED projVars

\* generateMoreStrategySuggestions up to its await.
generateMoreStrategySuggestions(criterionId) ==
    /\ CriterionKnown(criteria, criterionId)
    /\ ~Truthy(loadingStrategySuggestions, criterionId)
    /\ fetchCount < MaxFetches
    /\ loadingStrategySuggestions' = Put(loadingStrategySuggestions, criterionId, TRUE)
    /\ pending' = pending \cup FetchCalls("moreStrategies", criterionId, fetchCount + 1, 1)
    /\ fetchCount' = fetchCount + 1
    /\ history' = [history EXCEPT !.last = Event("moreStrategies", criterionId, 0)]
    /\ UNCHANGED <<db, routeVars, coachVars, treeVars, suggVars, criteria, strategies, strategySuggestions,
                   criterionSuggestions, loadingCriterionSuggestions, orderWrites, opCount, nextId, now>>
    /\ UNCHANGED projVars

moreStrategiesResolvedReplaces(op, contents) ==
    /\ op.kind = "moreStrategies"
    /\ pending' = pending \ {op}
    /\ strategySuggestions' = Put(strategySuggestions, op.target,
                                  AsStrategySuggestions(contents, nextId))
    /\ loadingStrategySuggestions' = LoadingCleared(loadingStrategySuggestions, op.target)
    /\ nextId' = nextId + Len(contents)
    /\ history' = [history EXCEPT !.last = Event("moreStrategiesFetched", op.target, contents)]
    /\ UNCHANGED <<db, routeVars, coachVars, treeVars, suggVars, criteria, strategies,
                   criterionSuggestions, loadingCriterionSuggestions, orderWrites, opCount, fetchCount, now>>
    /\ UNCHANGED projVars

\* generateMoreStrategySuggestions after its await resolved.
moreStrategiesResolved(op, contents) ==
    /\ op.kind = "moreStrategies"
    /\ pending' = pending \ {op}
    /\ strategySuggestions' = Put(strategySuggestions, op.target,
           (IF Has(strategySuggestions, op.target) THEN strategySuggestions[op.target] ELSE <<>>)
               \o AsStrategySuggestions(contents, nextId))
    /\ loadingStrategySuggestions' = LoadingCleared(loadingStrategySuggestions, op.target)
    /\ nextId' = nextId + Len(contents)
    /\ history' = [history EXCEPT !.last = Event("moreStrategiesFetched", op.target, contents)]
    /\ UNCHANGED <<db, routeVars, coachVars, treeVars, suggVars, criteria, strategies,
                   criterionSuggestions, loadingCriterionSuggestions, orderWrites, opCount, fetchCount, now>>
    /\ UNCHANGED projVars

\* generateMoreStrategySuggestions after its await threw: only the finally block.
moreStrategiesRejected(op) ==
    /\ op.kind = "moreStrategies"
    /\ pending' = pending \ {op}
    /\ loadingStrategySuggestions' = LoadingCleared(loadingStrategySuggestions, op.target)
    /\ history' = [history EXCEPT !.last = Event("moreStrategiesFailed", op.target, 0)]
    /\ UNCHANGED <<db, routeVars, coachVars, treeVars, suggVars, criteria, strategies, strategySuggestions,
                   criterionSuggestions, loadingCriterionSuggestions, orderWrites, opCount, fetchCount, nextId, now>>
    /\ UNCHANGED projVars

----------------------------------------------------------------------------
(* Harms: accepted suggestions, typed harms, deletes *)

AppendHarmInFront(hs, h) == <<h>> \o hs

\* [...harms, harm]
AppendHarm(hs, h) == Append(hs, h)

\* h.content === suggestion.content && h.observationIds.includes(obsId)
MatchesSuggestion(h, obsId, content) ==
    h.content = content /\ obsId \in h.observationIds

\* harms.find(h => h.content === suggestion.content && ...)
HarmToRemove(hs, obsId, content) ==
    LET found == SelectSeq(hs, LAMBDA h : MatchesSuggestion(h, obsId, content))
    IN  IF found = <<>> THEN None ELSE Some(found[1])

\* harms.filter(h => !(h.content === suggestion.content && ...))
WithoutMatching(hs, obsId, content) ==
    SelectSeq(hs, LAMBDA h : ~MatchesSuggestion(h, obsId, content))

\* harms.filter(h => h.id !== harmId)
WithoutHarm(hs, harmId) == SelectSeq(hs, LAMBDA h : h.id # harmId)

\* prev[obsId].map(s => s.id === suggestionId ? { ...s, selected } : s)
SetSelected(list, sid, selected) ==
    [i \in 1..Len(list) |->
        IF list[i].id = sid THEN [list[i] EXCEPT !.selected = selected] ELSE list[i]]

\* suggestions?.find(s => s.id === suggestionId)
FindSuggestion(sugg, obsId, sid) ==
    IF ~Has(sugg, obsId) THEN None
    ELSE LET found == SelectSeq(sugg[obsId], LAMBDA x : x.id = sid)
         IN  IF found = <<>> THEN None ELSE Some(found[1])

\* addDoc(collection(db, 'harms'), {...})
StoreWithHarm(docs, id, obsId, content, createdAt, via) ==
    docs \cup {[id |-> id, observationIds |-> {obsId}, content |-> content,
                createdAt |-> createdAt, via |-> via]}

\* deleteDoc(doc(db, 'harms', harmId))
StoreWithoutHarm(docs, harmId) == {d \in docs : d.id # harmId}

HarmIds(hs) == {hs[i].id : i \in 1..Len(hs)}

\* The harms by content and parent, in memory and in the store.
Entities(hs) == {<<hs[i].content, hs[i].observationIds>> : i \in 1..Len(hs)}

StoreEntities(docs) == {<<d.content, d.observationIds>> : d \in docs}

\* History of an on/off round trip of one suggestion with nothing in between.
TripStart(sid) ==
    IF pending = {}
    THEN Some([sid |-> sid, mem |-> Entities(harms),
               store |-> StoreEntities(storeHarms), phase |-> "on"])
    ELSE None

TripOff(sid) ==
    IF /\ pending = {}
       /\ IsSome(history.roundTrip)
       /\ Get(history.roundTrip).sid = sid
       /\ Get(history.roundTrip).phase = "on"
    THEN history.roundTrip
    ELSE None

TripDone(trip) ==
    IF IsSome(trip) THEN Some([Get(trip) EXCEPT !.phase = "off"]) ELSE None

\* toggleHarmSuggestion up to its await (all of it when nothing is awaited).
toggleHarmSuggestion(obsId, sid) ==
    /\ IsSome(FindSuggestion(harmSuggestions, obsId, sid))
    /\ opCount < MaxOps
    /\ opCount' = opCount + 1
    /\ LET sg == Get(FindSuggestion(harmSuggestions, obsId, sid))
           rem == HarmToRemove(harms, obsId, sg.content)
           call == [BlankCall EXCEPT !.n = opCount + 1, !.target = obsId,
                                     !.sid = sid, !.content = sg.content,
                                     !.snapHarms = harms]
       IN
       IF sg.selected
       THEN IF IsSome(rem) /\ db
            THEN /\ pending' = pending \cup
                       {[call EXCEPT !.kind = "toggleOff", !.idx = Get(rem).id]}
                 /\ history' = [history EXCEPT !.last = Event("toggle", obsId, sid),
                                               !.roundTrip = TripOff(sid)]
                 /\ UNCHANGED <<harms, harmSuggestions, nextId, now>>
            ELSE /\ harms' = WithoutMatching(harms, obsId, sg.content)
                 /\ harmSuggestions' = Put(harmSuggestions, obsId,
                       SetSelected(harmSuggestions[obsId], sid, FALSE))
                 /\ history' = [history EXCEPT
                       !.last = Event("toggledOff", obsId, sid),
                       !.roundTrip = TripDone(TripOff(sid)),
                       !.deleted = @ \cup (HarmIds(harms) \
                                     HarmIds(WithoutMatching(harms, obsId, sg.content)))]
                 /\ UNCHANGED <<pending, nextId, now>>
       ELSE IF db
            THEN /\ pending' = pending \cup {[call EXCEPT !.kind = "toggleOn"]}
                 /\ history' = [history EXCEPT !.last = Event("toggle", obsId, sid),
                                               !.roundTrip = TripStart(sid)]
                 /\ UNCHANGED <<harms, harmSuggestions, nextId, now>>
            ELSE /\ harms' = AppendHarm(harms,
                       [NewHarm(nextId, obsId, sg.content, now) EXCEPT !.via = sid])
                 /\ harmSuggestions' = Put(harmSuggestions, obsId,
                       SetSelected(harmSuggestions[obsId], sid, TRUE))
                 /\ nextId' = nextId + 1
                 /\ now' = now + 1
                 /\ history' = [history EXCEPT
                       !.last = Event("toggledOn", obsId, sid),
                       !.roundTrip = TripStart(sid),
                       !.created = @ \cup {nextId}]
                 /\ UNCHANGED pending
    /\ UNCHANGED <<db, routeVars, coachVars, observations, storeObservations, storeHarms,
                   loadingHarmSuggestions, customHarmInputs, detailItem, orderWrites,
                   fetchCount>>
    /\ UNCHANGED deepVars
    /\ UNCHANGED projVars

\* toggleHarmSuggestion after  await createHarm(...)  resolved.
toggleOnResolved(op) ==
    /\ op.kind = "toggleOn"
    /\ pending' = pending \ {op}
    /\ storeHarms' = StoreWithHarm(storeHarms, nextId, op.target, op.content, now, op.sid)
    /\ harms' = AppendHarm(op.snapHarms,
           [NewHarm(nextId, op.target, op.content, now) EXCEPT !.via = op.sid])
    /\ harmSuggestions' = Put(harmSuggestions, op.target,
           SetSelected(harmSuggestions[op.target], op.sid, TRUE))
    /\ nextId' = nextId + 1
    /\ now' = now + 1
    /\ history' = [history EXCEPT !.last = Event("toggledOn", op.target, op.sid),
                                  !.created = @ \cup {nextId}]
    /\ UNCHANGED <<db, routeVars, coachVars, observations, storeObservations,
                   loadingHarmSuggestions, customHarmInputs, detailItem, orderWrites,
                   opCount, fetchCount>>
    /\ UNCHANGED deepVars
    /\ storeProject' = updateProject(storeProject, <<>>, now)
    /\ UNCHANGED <<inputVars, deepStoreVars, projectVars, bannerVars>>

\* toggleHarmSuggestion after  await createHarm(...)  threw: return.
toggleOnRejected(op) ==
    /\ op.kind = "toggleOn"
    /\ pending' = pending \ {op}
    /\ history' = [history EXCEPT !.last = Event("toggleOnFailed", op.target, op.sid),
                                  !.roundTrip = None, !.writeFailed = TRUE]
    /\ UNCHANGED <<db, routeVars, coachVars, treeVars, suggVars, orderWrites, opCount,
                   fetchCount, nextId, now>>
    /\ UNCHANGED deepVars
    /\ UNCHANGED projVars

\* toggleHarmSuggestion after  await deleteHarm(...)  settled: the catch only
\* logs, so the rest runs whether the delete was done or was rejected.
toggleOffSettled(op, done) ==
    /\ op.kind = "toggleOff"
    /\ pending' = pending \ {op}
    /\ storeHarms' = (IF done THEN StoreWithoutHarm(storeHarms, op.idx) ELSE storeHarms)
    /\ harms' = WithoutMatching(op.snapHarms, op.target, op.content)
    /\ harmSuggestions' = Put(harmSuggestions, op.target,
           SetSelected(harmSuggestions[op.target], op.sid, FALSE))
    /\ history' = [history EXCEPT
           !.last = Event("toggledOff", op.target, op.sid),
           !.roundTrip = (IF done THEN TripDone(@) ELSE None),
           !.writeFailed = (@ \/ ~done),
           !.deleted = (IF done THEN @ \cup {op.idx} ELSE @)]
    /\ UNCHANGED <<db, routeVars, coachVars, observations, storeObservations,
                   loadingHarmSuggestions, customHarmInputs, detailItem, orderWrites,
                   opCount, fetchCount, nextId, now>>
    /\ UNCHANGED deepVars
    /\ UNCHANGED projVars

\* onChange of a harm input: setCustomHarmInputs(prev => ({...prev, [id]: value}))
typeCustomHarm(obsId, text) ==
    /\ customHarmInputs' = Put(customHarmInputs, obsId, text)
    /\ UNCHANGED <<db, routeVars, coachVars, treeVars, harmSuggestions, loadingHarmSuggestions,
                   detailItem, asyncVars, history>>
    /\ UNCHANGED deepVars
    /\ UNCHANGED projVars

\* customHarmInputs[obsId]?.trim()
CustomHarmContent(obsId) ==
    IF Has(customHarmInputs, obsId) THEN Trim(customHarmInputs[obsId]) ELSE <<>>

\* addCustomHarm up to its await (all of it when no store is configured).
addCustomHarm(obsId) ==
    /\ CustomHarmContent(obsId) # <<>>
    /\ opCount < MaxOps
    /\ opCount' = opCount + 1
    /\ customHarmInputs' = Put(customHarmInputs, obsId, <<>>)
    /\ IF db
       THEN /\ pending' = pending \cup
                  {[BlankCall EXCEPT !.kind = "createHarm", !.n = opCount + 1,
                                     !.target = obsId,
                                     !.content = CustomHarmContent(obsId),
                                     !.raw = customHarmInputs[obsId],
                                     !.snapHarms = harms]}
            /\ history' = [history EXCEPT !.last = Event("addHarm", obsId, 0),
                                          !.roundTrip = None]
            /\ UNCHANGED <<harms, nextId, now>>
       ELSE /\ harms' = AppendHarm(harms,
                  NewHarm(nextId, obsId, CustomHarmContent(obsId), now))
            /\ nextId' = nextId + 1
            /\ now' = now + 1
            /\ history' = [history EXCEPT !.last = Event("addedHarm", obsId, nextId),
                                          !.roundTrip = None,
                                          !.returned = Some(nextId),
                                          !.created = @ \cup {nextId}]
            /\ UNCHANGED pending
    /\ UNCHANGED <<db, routeVars, coachVars, observations, storeObservations, storeHarms,
                   harmSuggestions, loadingHarmSuggestions, detailItem, orderWrites,
                   fetchCount>>
    /\ UNCHANGED deepVars
    /\ UNCHANGED projVars

\* addCustomHarm after  await createHarm(...)  resolved.
createHarmResolved(op) ==
    /\ op.kind = "createHarm"
    /\ pending' = pending \ {op}
    /\ storeHarms' = StoreWithHarm(storeHarms, nextId, op.target, op.content, now, 0)
    /\ harms' = AppendHarm(op.snapHarms, NewHarm(nextId, op.target, op.content, now))
    /\ nextId' = nextId + 1
    /\ now' = now + 1
    /\ history' = [history EXCEPT !.last = Event("addedHarm", op.target, nextId),
                                  !.returned = Some(nextId),
                                  !.created = @ \cup {nextId}]
    /\ UNCHANGED <<db, routeVars, coachVars, observations, storeObservations, suggVars,
                   orderWrites, opCount, fetchCount>>
    /\ UNCHANGED deepVars
    /\ storeProject' = updateProject(storeProject, <<>>, now)
    /\ UNCHANGED <<inputVars, deepStoreVars, projectVars, bannerVars>>

\* addCustomHarm after  await createHarm(...)  threw: the text goes back.
createHarmRejected(op) ==
    /\ op.kind = "createHarm"
    /\ pending' = pending \ {op}
    /\ customHarmInputs' = Put(customHarmInputs, op.target, op.content)
    /\ history' = [history EXCEPT
           !.last = Event("addHarmFailed", op.target, <<op.raw, op.n>>),
           !.returned = None, !.writeFailed = TRUE]
    /\ UNCHANGED <<db, routeVars, coachVars, treeVars, harmSuggestions, loadingHarmSuggestions,
                   detailItem, orderWrites, opCount, fetchCount, nextId, now>>
    /\ UNCHANGED deepVars
    /\ \E detail \in ErrorDetails : showError("Failed to save harm", detail)
    /\ UNCHANGED <<inputVars, deepStoreVars, projectVars, storeProject>>

\* handleDeleteHarm up to its await (all of it when no store is configured).
handleDeleteHarm(harmId) ==
    /\ opCount < MaxOps
    /\ opCount' = opCount + 1
    /\ IF db
       THEN /\ pending' = pending \cup
                  {[BlankCall EXCEPT !.kind = "deleteHarm", !.n = opCount + 1,
                                     !.target = harmId, !.snapHarms = harms]}
            /\ history' = [history EXCEPT !.last = Event("deleteHarm", harmId, 0),
                                          !.roundTrip = None]
            /\ UNCHANGED harms
       ELSE /\ harms' = WithoutHarm(harms, harmId)
            /\ history' = [history EXCEPT !.last = Event("deletedHarm", harmId, 0),
                                          !.roundTrip = None,
                                          !.deleted = @ \cup {harmId}]
            /\ UNCHANGED pending
    /\ UNCHANGED <<db, routeVars, coachVars, observations, storeObservations, storeHarms,
                   suggVars, orderWrites, fetchCount, nextId, now>>
    /\ UNCHANGED deepVars
    /\ UNCHANGED projVars

\* handleDeleteHarm after  await deleteHarm(...)  resolved.
deleteHarmResolved(op) ==
    /\ op.kind = "deleteHarm"
    /\ pending' = pending \ {op}
    /\ storeHarms' = StoreWithoutHarm(storeHarms, op.target)
    /\ harms' = WithoutHarm(op.snapHarms, op.target)
    /\ history' = [history EXCEPT !.last = Event("deletedHarm", op.target, 0),
                                  !.deleted = @ \cup {op.target}]
    /\ UNCHANGED <<db, routeVars, coachVars, observations, storeObservations, suggVars,
                   orderWrites, opCount, fetchCount, nextId, now>>
    /\ UNCHANGED deepVars
    /\ UNCHANGED projVars

\* handleDeleteHarm after  await deleteHarm(...)  threw: return.
deleteHarmRejected(op) ==
    /\ op.kind = "deleteHarm"
    /\ pending' = pending \ {op}
    /\ history' = [history EXCEPT !.last = Event("deleteHarmFailed", op.target, 0),
                                  !.writeFailed = TRUE]
    /\ UNCHANGED <<db, routeVars, coachVars, treeVars, suggVars, orderWrites, opCount,
                   fetchCount, nextId, now>>
    /\ UNCHANGED deepVars
    /\ UNCHANGED projVars

----------------------------------------------------------------------------
(* Criteria: title generation, toggle, add, delete *)

\* results of fetchSuggestions('insightTitle', ...)
TitleText == <<"T">>
TitleResults == {<<>>, <<<<" ">> \o TitleText>>}

\* observations.find(o => harm.observationIds.includes(o.id))
ObservationOfHarm(obs, harm) ==
    LET found == SelectSeq(obs, LAMBDA o : o.id \in harm.observationIds)
    IN  IF found = <<>> THEN None ELSE Some(found[1])

\* harms.find(h => h.id === harmId)
FindHarm(hs, harmId) ==
    LET found == SelectSeq(hs, LAMBDA h : h.id = harmId)
    IN  IF found = <<>> THEN None ELSE Some(found[1])

\* obs.title read as a condition: undefined and '' are both falsy
HasTitle(o) == IsSome(o.title) /\ Get(o.title) # <<>>

\* maybeGenerateTitle up to its await: the title request it starts, if any,
\* for the harms and observations of the render that created the callback.
TitleCalls(hs, obs, harmId, n) ==
    LET harm == FindHarm(hs, harmId)
        o == IF IsSome(harm) THEN ObservationOfHarm(obs, Get(harm)) ELSE None
    IN  IF IsSome(o) /\ ~HasTitle(Get(o))
        THEN {[BlankCall EXCEPT !.kind = "insightTitle", !.n = n,
                                !.target = Get(o).id]}
        ELSE {}

\* prev.map(o => o.id === obsId ? { ...o, title } : o)
WithTitle(obs, obsId, title) ==
    [i \in 1..Len(obs) |->
        IF obs[i].id = obsId THEN [obs[i] EXCEPT !.title = Some(title)] ELSE obs[i]]

WithContentSwapped(list, id, content) ==
    [i \in 1..Len(list) |->
        IF list[i].id # id THEN [list[i] EXCEPT !.content = content] ELSE list[i]]

\* prev.map(x => x.id === id ? { ...x, content } : x)
WithContent(list, id, content) ==
    [i \in 1..Len(list) |->
        IF list[i].id = id THEN [list[i] EXCEPT !.content = content] ELSE list[i]]

\* A write that the page starts and does not await:  updateX(id, data).catch(...)
UpdateCall(coll, id, field, value, n) ==
    [BlankCall EXCEPT !.kind = "update", !.coll = coll, !.target = id,
                      !.field = field, !.content = value, !.n = n]

\* maybeGenerateTitle after  await fetchSuggestions('insightTitle', ...)  resolved.
titleResolved(op, results) ==
    /\ op.kind = "insightTitle"
    /\ LET title == IF results = <<>> THEN <<>> ELSE Trim(results[1])
       IN  IF title # <<>>
           THEN /\ observations' = WithTitle(observations, op.target, title)
                /\ pending' = (pending \ {op}) \cup
                      (IF db THEN {UpdateCall("observations", op.target, "title",
                                              title, op.n)}
                       ELSE {})
                /\ history' = [history EXCEPT !.last = Event("titled", op.target, title)]
           ELSE /\ pending' = pending \ {op}
                /\ history' = [history EXCEPT !.last = Event("untitled", op.target, 0)]
                /\ UNCHANGED observations
    /\ UNCHANGED <<db, routeVars, coachVars, harms, storeObservations, storeHarms, suggVars,
                   deepVars, orderWrites, opCount, fetchCount, nextId, now, projVars>>

titleRejectedShowsError(op) ==
    /\ op.kind = "insightTitle"
    /\ pending' = pending \ {op}
    /\ \E detail \in ErrorDetails : showError("Failed to generate title", detail)
    /\ history' = [history EXCEPT !.last = Event("titleFailed", op.target, 0)]
    /\ UNCHANGED <<db, routeVars, coachVars, treeVars, suggVars, deepVars, orderWrites, opCount,
                   fetchCount, nextId, now, inputVars, deepStoreVars, projectVars,
                   storeProject>>

\* maybeGenerateTitle after its fetch threw: the catch only logs.
titleRejected(op) ==
    /\ op.kind = "insightTitle"
    /\ pending' = pending \ {op}
    /\ history' = [history EXCEPT !.last = Event("titleFailed", op.target, 0)]
    /\ UNCHANGED <<db, routeVars, coachVars, treeVars, suggVars, deepVars, orderWrites, opCount,
                   fetchCount, nextId, now, projVars>>

\* c.content === suggestion.content && c.harmId === harmId
MatchesCriterionSuggestion(c, harmId, content) ==
    c.content = content /\ c.harmId = harmId

\* criteria.find(c => c.content === suggestion.content && c.harmId === harmId)
CritToRemove(cs, harmId, content) ==
    LET found == SelectSeq(cs, LAMBDA c : MatchesCriterionSuggestion(c, harmId, content))
    IN  IF found = <<>> THEN None ELSE Some(found[1])

\* criteria.filter(c => !(c.content === suggestion.content && c.harmId === harmId))
WithoutMatchingCriterion(cs, harmId, content) ==
    SelectSeq(cs, LAMBDA c : ~MatchesCriterionSuggestion(c, harmId, content))

\* items.filter(x => x.id !== id)
WithoutId(list, id) == SelectSeq(list, LAMBDA x : x.id # id)

\* deleteDoc(doc(db, coll, id))
StoreWithout(docs, id) == {d \in docs : d.id # id}

\* toggleCriterionSuggestion up to its await (all of it when nothing is awaited).
toggleCriterionSuggestion(harmId, sid) ==
    /\ IsSome(FindSuggestion(criterionSuggestions, harmId, sid))
    /\ opCount < MaxOps
    /\ opCount' = opCount + 1
    /\ LET sg == Get(FindSuggestion(criterionSuggestions, harmId, sid))
           rem == CritToRemove(criteria, harmId, sg.content)
           call == [BlankCall EXCEPT !.n = opCount + 1, !.target = harmId,
                                     !.sid = sid, !.content = sg.content,
                                     !.snapCriteria = criteria,
                                     !.snapHarms = harms,
                                     !.snapObservations = observations]
       IN
       IF sg.selected
       THEN IF IsSome(rem) /\ db
            THEN /\ pending' = pending \cup
                       {[call EXCEPT !.kind = "toggleCriterionOff", !.idx = Get(rem).id]}
                 /\ history' = [history EXCEPT !.last = Event("toggleCriterion", harmId, sid)]
                 /\ UNCHANGED <<criteria, criterionSuggestions, nextId>>
            ELSE /\ criteria' = WithoutMatchingCriterion(criteria, harmId, sg.content)
                 /\ criterionSuggestions' = Put(criterionSuggestions, harmId,
                       SetSelected(criterionSuggestions[harmId], sid, FALSE))
                 /\ history' = [history EXCEPT
                       !.last = Event("toggledCriterionOff", harmId, sid)]
                 /\ UNCHANGED <<pending, nextId>>
       ELSE IF db
            THEN /\ pending' = pending \cup {[call EXCEPT !.kind = "toggleCriterionOn"]}
                 /\ history' = [history EXCEPT !.last = Event("toggleCriterion", harmId, sid)]
                 /\ UNCHANGED <<criteria, criterionSuggestions, nextId>>
            ELSE /\ criteria' = Append(criteria, NewCriterion(nextId, harmId, sg.content))
                 /\ criterionSuggestions' = Put(criterionSuggestions, harmId,
                       SetSelected(criterionSuggestions[harmId], sid, TRUE))
                 /\ nextId' = nextId + 1
                 /\ history' = [history EXCEPT
                       !.last = Event("toggledCriterionOn", harmId, sid)]
                 /\ UNCHANGED pending
    /\ UNCHANGED <<db, routeVars, coachVars, treeVars, suggVars, strategies,
                   loadingCriterionSuggestions, strategySuggestions,
                   loadingStrategySuggestions, orderWrites, fetchCount, now, projVars>>

\* toggleCriterionSuggestion after  await createCriterion(...)  resolved.
toggleCriterionOnResolved(op) ==
    /\ op.kind = "toggleCriterionOn"
    /\ pending' = (pending \ {op}) \cup
           TitleCalls(op.snapHarms, op.snapObservations, op.target, op.n)
    /\ storeCriteria' = storeCriteria \cup
           {CriterionDoc(NewCriterion(nextId, op.target, op.content))}
    /\ storeProject' = updateProject(storeProject, <<>>, now)
    /\ criteria' = Append(op.snapCriteria, NewCriterion(nextId, op.target, op.content))
    /\ criterionSuggestions' = Put(criterionSuggestions, op.target,
           SetSelected(criterionSuggestions[op.target], op.sid, TRUE))
    /\ nextId' = nextId + 1
    /\ now' = now + 1
    /\ history' = [history EXCEPT !.last = Event("toggledCriterionOn", op.target, op.sid)]
    /\ UNCHANGED <<db, routeVars, coachVars, treeVars, suggVars, strategies,
                   loadingCriterionSuggestions, strategySuggestions,
                   loadingStrategySuggestions, orderWrites, opCount, fetchCount,
                   inputVars, storeStrategies, projectVars, bannerVars>>

\* toggleCriterionSuggestion after  await createCriterion(...)  threw: return.
toggleCriterionOnRejected(op) ==
    /\ op.kind = "toggleCriterionOn"
    /\ pending' = pending \ {op}
    /\ history' = [history EXCEPT
           !.last = Event("toggleCriterionOnFailed", op.target, op.sid),
           !.writeFailed = TRUE]
    /\ UNCHANGED <<db, routeVars, coachVars, treeVars, suggVars, deepVars, orderWrites, opCount,
                   fetchCount, nextId, now, projVars>>

\* toggleCriterionSuggestion after  await deleteCriterion(...)  settled: the
\* catch only logs, so the rest runs whether the delete was done or rejected.
toggleCriterionOffSettled(op, done) ==
    /\ op.kind = "toggleCriterionOff"
    /\ pending' = pending \ {op}
    /\ storeCriteria' = (IF done THEN StoreWithout(storeCriteria, op.idx)
                         ELSE storeCriteria)
    /\ criteria' = WithoutMatchingCriterion(op.snapCriteria, op.target, op.content)
    /\ criterionSuggestions' = Put(criterionSuggestions, op.target,
           SetSelected(criterionSuggestions[op.target], op.sid, FALSE))
    /\ history' = [history EXCEPT
           !.last = Event(IF done THEN "toggledCriterionOff"
                          ELSE "toggleCriterionOffFailed", op.target, op.sid),
           !.writeFailed = (@ \/ ~done)]
    /\ UNCHANGED <<db, routeVars, coachVars, treeVars, suggVars, strategies,
                   loadingCriterionSuggestions, strategySuggestions,
                   loadingStrategySuggestions, orderWrites, opCount, fetchCount,
                   nextId, now, inputVars, storeStrategies, projectVars,
                   storeProject, bannerVars>>

\* onChange of a criterion input
typeCustomCriterion(harmId, text) ==
    /\ customCriterionInputs' = Put(customCriterionInputs, harmId, text)
    /\ UNCHANGED <<db, routeVars, coachVars, treeVars, suggVars, deepVars, asyncVars, history,
                   customStrategyInputs, deepStoreVars, projectVars, storeProject,
                   bannerVars>>

\* customCriterionInputs[harmId]?.trim()
CustomContent(inputs, key) == IF Has(inputs, key) THEN Trim(inputs[key]) ELSE <<>>

\* addCustomCriterion up to its await (all of it when no store is configured).
addCustomCriterion(harmId) ==
    /\ CustomContent(customCriterionInputs, harmId) # <<>>
    /\ opCount < MaxOps
    /\ opCount' = opCount + 1
    /\ customCriterionInputs' = Put(customCriterionInputs, harmId, <<>>)
    /\ LET content == CustomContent(customCriterionInputs, harmId) IN
       IF db
       THEN /\ pending' = pending \cup
                  {[BlankCall EXCEPT !.kind = "createCriterion", !.n = opCount + 1,
                                     !.target = harmId, !.content = content,
                                     !.raw = customCriterionInputs[harmId],
                                     !.snapCriteria = criteria,
                                     !.snapHarms = harms,
                                     !.snapObservations = observations]}
            /\ history' = [history EXCEPT !.last = Event("addCriterion", harmId, 0)]
            /\ UNCHANGED <<criteria, nextId>>
       ELSE /\ criteria' = Append(criteria, NewCriterion(nextId, harmId, content))
            /\ nextId' = nextId + 1
            /\ history' = [history EXCEPT !.last = Event("addedCriterion", harmId, nextId),
                                          !.returned = Some(nextId)]
            /\ UNCHANGED pending
    /\ UNCHANGED <<db, routeVars, coachVars, treeVars, suggVars, strategies, criterionSuggestions,
                   loadingCriterionSuggestions, strategySuggestions,
                   loadingStrategySuggestions, orderWrites, fetchCount, now,
                   customStrategyInputs, deepStoreVars, projectVars, storeProject,
                   bannerVars>>

\* addCustomCriterion after  await createCriterion(...)  resolved.
createCriterionResolved(op) ==
    /\ op.kind = "createCriterion"
    /\ pending' = (pending \ {op}) \cup
           TitleCalls(op.snapHarms, op.snapObservations, op.target, op.n)
    /\ storeCriteria' = storeCriteria \cup
           {CriterionDoc(NewCriterion(nextId, op.target, op.content))}
    /\ storeProject' = updateProject(storeProject, <<>>, now)
    /\ criteria' = Append(op.snapCriteria, NewCriterion(nextId, op.target, op.content))
    /\ nextId' = nextId + 1
    /\ now' = now + 1
    /\ history' = [history EXCEPT !.last = Event("addedCriterion", op.target, nextId),
                                  !.returned = Some(nextId)]
    /\ UNCHANGED <<db, routeVars, coachVars, treeVars, suggVars, strategies, criterionSuggestions,
                   loadingCriterionSuggestions, strategySuggestions,
                   loadingStrategySuggestions, orderWrites, opCount, fetchCount,
                   inputVars, storeStrategies, projectVars, bannerVars>>

\* addCustomCriterion after  await createCriterion(...)  threw: the banner is
\* shown and the trimmed text goes back into the input.
createCriterionRejected(op) ==
    /\ op.kind = "createCriterion"
    /\ pending' = pending \ {op}
    /\ \E detail \in ErrorDetails : showError("Failed to save criterion", detail)
    /\ customCriterionInputs' = Put(customCriterionInputs, op.target, op.content)
    /\ history' = [history EXCEPT
           !.last = Event("addCriterionFailed", op.target, <<op.raw, op.n>>),
           !.returned = None, !.writeFailed = TRUE]
    /\ UNCHANGED <<db, routeVars, coachVars, treeVars, suggVars, deepVars, orderWrites, opCount,
                   fetchCount, nextId, now, customStrategyInputs, deepStoreVars,
                   projectVars, storeProject>>

\* handleDeleteCriterion up to its await (all of it when no store is configured).
handleDeleteCriterion(criterionId) ==
    /\ opCount < MaxOps
    /\ opCount' = opCount + 1
    /\ IF db
       THEN /\ pending' = pending \cup
                  {[BlankCall EXCEPT !.kind = "deleteCriterion", !.n = opCount + 1,
                                     !.target = criterionId,
                                     !.snapCriteria = criteria]}
            /\ history' = [history EXCEPT !.last = Event("deleteCriterion", criterionId, 0)]
            /\ UNCHANGED criteria
       ELSE /\ criteria' = WithoutId(criteria, criterionId)
            /\ history' = [history EXCEPT !.last = Event("deletedCriterion", criterionId, 0)]
            /\ UNCHANGED pending
    /\ UNCHANGED <<db, routeVars, coachVars, treeVars, suggVars, strategies, criterionSuggestions,
                   loadingCriterionSuggestions, strategySuggestions,
                   loadingStrategySuggestions, orderWrites, fetchCount, nextId, now,
                   projVars>>

\* handleDeleteCriterion after  await deleteCriterion(...)  resolved.
deleteCriterionResolved(op) ==
    /\ op.kind = "deleteCriterion"
    /\ pending' = pending \ {op}
    /\ storeCriteria' = StoreWithout(storeCriteria, op.target)
    /\ criteria' = WithoutId(op.snapCriteria, op.target)
    /\ history' = [history EXCEPT !.last = Event("deletedCriterion", op.target, 0)]
    /\ UNCHANGED <<db, routeVars, coachVars, treeVars, suggVars, strategies, criterionSuggestions,
                   loadingCriterionSuggestions, strategySuggestions,
                   loadingStrategySuggestions, orderWrites, opCount, fetchCount,
                   nextId, now, inputVars, storeStrategies, projectVars,
                   storeProject, bannerVars>>

\* handleDeleteCriterion after  await deleteCriterion(...)  threw: return.
deleteCriterionRejected(op) ==
    /\ op.kind = "deleteCriterion"
    /\ pending' = pending \ {op}
    /\ history' = [history EXCEPT !.last = Event("deleteCriterionFailed", op.target, 0),
                                  !.writeFailed = TRUE]
    /\ UNCHANGED <<db, routeVars, coachVars, treeVars, suggVars, deepVars, orderWrites, opCount,
                   fetchCount, nextId, now, projVars>>

----------------------------------------------------------------------------
(* Strategies: toggle, add, delete *)

HMW == <<"H", "M", "W">>

\* String.prototype.startsWith
StartsWith(s, prefix) ==
    Len(s) >= Len(prefix) /\ SubSeq(s, 1, Len(prefix)) = prefix

FinalContentAlways(content) == HMW \o <<" ">> \o content

\* content.startsWith('HMW') ? content : `HMW ${content}`
FinalContent(content) ==
    IF StartsWith(content, HMW) THEN content ELSE HMW \o <<" ">> \o content

\* s.content === suggestion.content && s.criterionId === criterionId
MatchesStrategySuggestion(s, criterionId, content) ==
    s.content = content /\ s.criterionId = criterionId

\* strategies.find(s => s.content === suggestion.content && ...)
StratToRemove(ss, criterionId, content) ==
    LET found == SelectSeq(ss, LAMBDA s : MatchesStrategySuggestion(s, criterionId, content))
    IN  IF found = <<>> THEN None ELSE Some(found[1])

\* strategies.filter(s => !(s.content === suggestion.content && ...))
WithoutMatchingStrategy(ss, criterionId, content) ==
    SelectSeq(ss, LAMBDA s : ~MatchesStrategySuggestion(s, criterionId, content))

\* toggleStrategySuggestion up to its await (all of it when nothing is awaited).
toggleStrategySuggestion(criterionId, sid) ==
    /\ IsSome(FindSuggestion(strategySuggestions, criterionId, sid))
    /\ opCount < MaxOps
    /\ opCount' = opCount + 1
    /\ LET sg == Get(FindSuggestion(strategySuggestions, criterionId, sid))
           rem == StratToRemove(strategies, criterionId, sg.content)
           call == [BlankCall EXCEPT !.n = opCount + 1, !.target = criterionId,
                                     !.sid = sid, !.content = sg.content,
                                     !.field = sg.type,
                                     !.snapStrategies = strategies]
       IN
       IF sg.selected
       THEN IF IsSome(rem) /\ db
            THEN /\ pending' = pending \cup
                       {[call EXCEPT !.kind = "toggleStrategyOff", !.idx = Get(rem).id]}
                 /\ history' = [history EXCEPT !.last = Event("toggleStrategy", criterionId, sid)]
                 /\ UNCHANGED <<strategies, strategySuggestions, nextId>>
            ELSE /\ strategies' = WithoutMatchingStrategy(strategies, criterionId, sg.content)
                 /\ strategySuggestions' = Put(strategySuggestions, criterionId,
                       SetSelected(strategySuggestions[criterionId], sid, FALSE))
                 /\ history' = [history EXCEPT
                       !.last = Event("toggledStrategyOff", criterionId, sid)]
                 /\ UNCHANGED <<pending, nextId>>
       ELSE IF db
            THEN /\ pending' = pending \cup {[call EXCEPT !.kind = "toggleStrategyOn"]}
                 /\ history' = [history EXCEPT !.last = Event("toggleStrategy", criterionId, sid)]
                 /\ UNCHANGED <<strategies, strategySuggestions, nextId>>
            ELSE /\ strategies' = Append(strategies,
                       NewStrategy(nextId, criterionId, sg.content, Some(sg.type)))
                 /\ strategySuggestions' = Put(strategySuggestions, criterionId,
                       SetSelected(strategySuggestions[criterionId], sid, TRUE))
                 /\ nextId' = nextId + 1
                 /\ history' = [history EXCEPT
                       !.last = Event("toggledStrategyOn", criterionId, sid)]
                 /\ UNCHANGED pending
    /\ UNCHANGED <<db, routeVars, coachVars, treeVars, suggVars, criteria, criterionSuggestions,
                   loadingCriterionSuggestions, loadingStrategySuggestions,
                   orderWrites, fetchCount, now, projVars>>

\* toggleStrategySuggestion after  await createStrategy(...)  resolved.
toggleStrategyOnResolved(op) ==
    /\ op.kind = "toggleStrategyOn"
    /\ pending' = pending \ {op}
    /\ storeStrategies' = storeStrategies \cup
           {StrategyDoc(NewStrategy(nextId, op.target, op.content, Some(op.field)))}
    /\ storeProject' = updateProject(storeProject, <<>>, now)
    /\ strategies' = Append(op.snapStrategies,
           NewStrategy(nextId, op.target, op.content, Some(op.field)))
    /\ strategySuggestions' = Put(strategySuggestions, op.target,
           SetSelected(strategySuggestions[op.target], op.sid, TRUE))
    /\ nextId' = nextId + 1
    /\ now' = now + 1
    /\ history' = [history EXCEPT !.last = Event("toggledStrategyOn", op.target, op.sid)]
    /\ UNCHANGED <<db, routeVars, coachVars, treeVars, suggVars, criteria, criterionSuggestions,
                   loadingCriterionSuggestions, loadingStrategySuggestions,
                   orderWrites, opCount, fetchCount, inputVars, storeCriteria,
                   projectVars, bannerVars>>

\* toggleStrategySuggestion after  await createStrategy(...)  threw: return.
toggleStrategyOnRejected(op) ==
    /\ op.kind = "toggleStrategyOn"
    /\ pending' = pending \ {op}
    /\ history' = [history EXCEPT
           !.last = Event("toggleStrategyOnFailed", op.target, op.sid),
           !.writeFailed = TRUE]
    /\ UNCHANGED <<db, routeVars, coachVars, treeVars, suggVars, deepVars, orderWrites, opCount,
                   fetchCount, nextId, now, projVars>>

\* toggleStrategySuggestion after  await deleteStrategy(...)  settled: the
\* catch only logs, so the rest runs whether the delete was done or rejected.
toggleStrategyOffSettled(op, done) ==
    /\ op.kind = "toggleStrategyOff"
    /\ pending' = pending \ {op}
    /\ storeStrategies' = (IF done THEN StoreWithout(storeStrategies, op.idx)
                           ELSE storeStrategies)
    /\ strategies' = WithoutMatchingStrategy(op.snapStrategies, op.target, op.content)
    /\ strategySuggestions' = Put(strategySuggestions, op.target,
           SetSelected(strategySuggestions[op.target], op.sid, FALSE))
    /\ history' = [history EXCEPT
           !.last = Event(IF done THEN "toggledStrategyOff"
                          ELSE "toggleStrategyOffFailed", op.target, op.sid),
           !.writeFailed = (@ \/ ~done)]
    /\ UNCHANGED <<db, routeVars, coachVars, treeVars, suggVars, criteria, criterionSuggestions,
                   loadingCriterionSuggestions, loadingStrategySuggestions,
                   orderWrites, opCount, fetchCount, nextId, now, inputVars,
                   storeCriteria, projectVars, storeProject, bannerVars>>

\* onChange of a strategy input
typeCustomStrategy(criterionId, text) ==
    /\ customStrategyInputs' = Put(customStrategyInputs, criterionId, text)
    /\ UNCHANGED <<db, routeVars, coachVars, treeVars, suggVars, deepVars, asyncVars, history,
                   customCriterionInputs, deepStoreVars, projectVars, storeProject,
                   bannerVars>>

\* addCustomStrategy up to its await (all of it when no store is configured).
addCustomStrategy(criterionId) ==
    /\ CustomContent(customStrategyInputs, criterionId) # <<>>
    /\ opCount < MaxOps
    /\ opCount' = opCount + 1
    /\ customStrategyInputs' = Put(customStrategyInputs, criterionId, <<>>)
    /\ LET content == CustomContent(customStrategyInputs, criterionId) IN
       IF db
       THEN /\ pending' = pending \cup
                  {[BlankCall EXCEPT !.kind = "createStrategy", !.n = opCount + 1,
                                     !.target = criterionId, !.content = content,
                                     !.raw = customStrategyInputs[criterionId],
                                     !.snapStrategies = strategies]}
            /\ history' = [history EXCEPT !.last = Event("addStrategy", criterionId, 0)]
            /\ UNCHANGED <<strategies, nextId>>
       ELSE /\ strategies' = Append(strategies,
                  NewStrategy(nextId, criterionId, FinalContent(content), None))
            /\ nextId' = nextId + 1
            /\ history' = [history EXCEPT !.last = Event("addedStrategy", criterionId, nextId),
                                          !.returned = None]
            /\ UNCHANGED pending
    /\ UNCHANGED <<db, routeVars, coachVars, treeVars, suggVars, criteria, criterionSuggestions,
                   loadingCriterionSuggestions, strategySuggestions,
                   loadingStrategySuggestions, orderWrites, fetchCount, now,
                   customCriterionInputs, deepStoreVars, projectVars, storeProject,
                   bannerVars>>

\* addCustomStrategy after  await createStrategy(...)  resolved.
createStrategyResolved(op) ==
    /\ op.kind = "createStrategy"
    /\ pending' = pending \ {op}
    /\ storeStrategies' = storeStrategies \cup
           {StrategyDoc(NewStrategy(nextId, op.target, FinalContent(op.content), None))}
    /\ storeProject' = updateProject(storeProject, <<>>, now)
    /\ strategies' = Append(op.snapStrategies,
           NewStrategy(nextId, op.target, FinalContent(op.content), None))
    /\ nextId' = nextId + 1
    /\ now' = now + 1
    /\ history' = [history EXCEPT !.last = Event("addedStrategy", op.target, nextId),
                                  !.returned = None]
    /\ UNCHANGED <<db, routeVars, coachVars, treeVars, suggVars, criteria, criterionSuggestions,
                   loadingCriterionSuggestions, strategySuggestions,
                   loadingStrategySuggestions, orderWrites, opCount, fetchCount,
                   inputVars, storeCriteria, projectVars, bannerVars>>

\* addCustomStrategy after  await createStrategy(...)  threw: the banner is
\* shown and the trimmed text, without the prefix, goes back into the input.
createStrategyRejected(op) ==
    /\ op.kind = "createStrategy"
    /\ pending' = pending \ {op}
    /\ \E detail \in ErrorDetails : showError("Failed to save strategy", detail)
    /\ customStrategyInputs' = Put(customStrategyInputs, op.target, op.content)
    /\ history' = [history EXCEPT
           !.last = Event("addStrategyFailed", op.target, <<op.raw, op.n>>),
           !.returned = None, !.writeFailed = TRUE]
    /\ UNCHANGED <<db, routeVars, coachVars, treeVars, suggVars, deepVars, orderWrites, opCount,
                   fetchCount, nextId, now, customCriterionInputs, deepStoreVars,
                   projectVars, storeProject>>

\* handleDeleteStrategy up to its await (all of it when no store is configured).
handleDeleteStrategy(strategyId) ==
    /\ opCount < MaxOps
    /\ opCount' = opCount + 1
    /\ IF db
       THEN /\ pending' = pending \cup
                  {[BlankCall EXCEPT !.kind = "deleteStrategy", !.n = opCount + 1,
                                     !.target = strategyId,
                                     !.snapStrategies = strategies]}
            /\ history' = [history EXCEPT !.last = Event("deleteStrategy", strategyId, 0)]
            /\ UNCHANGED strategies
       ELSE /\ strategies' = WithoutId(strategies, strategyId)
            /\ history' = [history EXCEPT !.last = Event("deletedStrategy", strategyId, 0)]
            /\ UNCHANGED pending
    /\ UNCHANGED <<db, routeVars, coachVars, treeVars, suggVars, criteria, criterionSuggestions,
                   loadingCriterionSuggestions, strategySuggestions,
                   loadingStrategySuggestions, orderWrites, fetchCount, nextId, now,
                   projVars>>

\* handleDeleteStrategy after  await deleteStrategy(...)  resolved.
deleteStrategyResolved(op) ==
    /\ op.kind = "deleteStrategy"
    /\ pending' = pending \ {op}
    /\ storeStrategies' = StoreWithout(storeStrategies, op.target)
    /\ strategies' = WithoutId(op.snapStrategies, op.target)
    /\ history' = [history EXCEPT !.last = Event("deletedStrategy", op.target, 0)]
    /\ UNCHANGED <<db, routeVars, coachVars, treeVars, suggVars, criteria, criterionSuggestions,
                   loadingCriterionSuggestions, strategySuggestions,
                   loadingStrategySuggestions, orderWrites, opCount, fetchCount,
                   nextId, now, inputVars, storeCriteria, projectVars, storeProject,
                   bannerVars>>

\* handleDeleteStrategy after  await deleteStrategy(...)  threw: return.
deleteStrategyRejected(op) ==
    /\ op.kind = "deleteStrategy"
    /\ pending' = pending \ {op}
    /\ history' = [history EXCEPT !.last = Event("deleteStrategyFailed", op.target, 0),
                                  !.writeFailed = TRUE]
    /\ UNCHANGED <<db, routeVars, coachVars, treeVars, suggVars, deepVars, orderWrites, opCount,
                   fetchCount, nextId, now, projVars>>

\* handleDeleteObservation up to its await (all of it when no store is configured).
handleDeleteObservation(obsId) ==
    /\ opCount < MaxOps
    /\ opCount' = opCount + 1
    /\ IF db
       THEN /\ pending' = pending \cup
                  {[BlankCall EXCEPT !.kind = "deleteObservation", !.n = opCount + 1,
                                     !.target = obsId,
                                     !.snapObservations = observations]}
            /\ history' = [history EXCEPT !.last = Event("deleteObservation", obsId, 0)]
            /\ UNCHANGED observations
       ELSE /\ observations' = WithoutId(observations, obsId)
            /\ history' = [history EXCEPT !.last = Event("deletedObservation", obsId, 0)]
            /\ UNCHANGED pending
    /\ UNCHANGED <<db, routeVars, coachVars, harms, storeObservations, storeHarms, suggVars,
                   deepVars, orderWrites, fetchCount, nextId, now, projVars>>

\* handleDeleteObservation after  await deleteObservation(...)  resolved.
deleteObservationResolved(op) ==
    /\ op.kind = "deleteObservation"
    /\ pending' = pending \ {op}
    /\ storeObservations' = StoreWithout(storeObservations, op.target)
    /\ observations' = WithoutId(op.snapObservations, op.target)
    /\ history' = [history EXCEPT !.last = Event("deletedObservation", op.target, 0)]
    /\ UNCHANGED <<db, routeVars, coachVars, harms, storeHarms, suggVars, deepVars, orderWrites,
                   opCount, fetchCount, nextId, now, projVars>>

\* handleDeleteObservation after  await deleteObservation(...)  threw: return.
deleteObservationRejected(op) ==
    /\ op.kind = "deleteObservation"
    /\ pending' = pending \ {op}
    /\ history' = [history EXCEPT
           !.last = Event("deleteObservationFailed", op.target, 0),
           !.writeFailed = TRUE]
    /\ UNCHANGED <<db, routeVars, coachVars, treeVars, suggVars, deepVars, orderWrites, opCount,
                   fetchCount, nextId, now, projVars>>

----------------------------------------------------------------------------
(* Export: the matrix *)

RECURSIVE Concat(_)
\* the sequences of q, one after the other
Concat(q) == IF q = <<>> THEN <<>> ELSE Head(q) \o Concat(Tail(q))

\* The header cells, each a text of one token.
Header == <<<<"Observation">>, <<"Harm">>, <<"Solution Criteria">>, <<"Strategy">>>>

\* The rows pushed for one criterion of one harm of one observation.
StrategyRows(o, h, c) ==
    LET critStrategies == getStrategiesForCriterion(c.id)
    IN  IF Len(critStrategies) = 0
        THEN <<<<o.content, h.content, c.content, <<>>>>>>
        ELSE [i \in 1..Len(critStrategies) |->
                 <<o.content, h.content, c.content, critStrategies[i].content>>]

\* The rows pushed for one harm of one observation.
CriterionRows(o, h) ==
    LET harmCriteria == getCriteriaForHarm(h.id)
    IN  IF Len(harmCriteria) = 0
        THEN <<<<o.content, h.content, <<>>, <<>>>>>>
        ELSE Concat([i \in 1..Len(harmCriteria) |-> StrategyRows(o, h, harmCriteria[i])])

HarmRowsFirstOnly(o) ==
    LET obsHarms == getHarmsForObservation(o.id)
    IN  IF Len(obsHarms) = 0
        THEN <<<<o.content, <<>>, <<>>, <<>>>>>>
        ELSE CriterionRows(o, obsHarms[1])

\* The rows pushed for one observation.
HarmRows(o) ==
    LET obsHarms == getHarmsForObservation(o.id)
    IN  IF Len(obsHarms) = 0
        THEN <<<<o.content, <<>>, <<>>, <<>>>>>>
        ELSE Concat([i \in 1..Len(obsHarms) |-> CriterionRows(o, obsHarms[i])])

\* rows of handleCopyMatrix: the header row, then the rows of every observation.
MatrixRows ==
    <<Header>> \o Concat([i \in 1..Len(observations) |-> HarmRows(observations[i])])

RECURSIVE Join(_, _)
\* Array.prototype.join, on sequences of sequences
Join(q, sep) ==
    IF q = <<>> THEN <<>>
    ELSE IF Len(q) = 1 THEN q[1]
    ELSE q[1] \o <<sep>> \o Join(Tail(q), sep)

\* rows.map(row => row.join('\t')).join('\n')
Plain(rows) ==
    Join([r \in 1..Len(rows) |->
             Join([k \in 1..Len(rows[r]) |-> rows[r][k]], "\t")], "\n")

RECURSIVE escape(_)
\* s.replace(/&/g, '&amp;').replace(/</g, '&lt;').replace(/>/g, '&gt;')
escape(s) ==
    IF s = <<>> THEN <<>>
    ELSE (CASE Head(s) = "&" -> <<"&", "a", "m", "p", ";">>
            [] Head(s) = "<" -> <<"&", "l", "t", ";">>
            [] Head(s) = ">" -> <<"&", "g", "t", ";">>
            [] OTHER -> <<Head(s)>>) \o escape(Tail(s))

\* The table: every tag is one token, every cell is escaped.
Html(rows) ==
    <<"<table><thead><tr>">>
    \o Concat([k \in 1..Len(rows[1]) |->
                  <<"<th>">> \o escape(rows[1][k]) \o <<"</th>">>])
    \o <<"</tr></thead><tbody>">>
    \o Concat([r \in 1..(Len(rows) - 1) |->
                  <<"<tr>">>
                  \o Concat([k \in 1..Len(rows[r + 1]) |->
                                <<"<td>">> \o escape(rows[r + 1][k]) \o <<"</td>">>])
                  \o <<"</tr>">>])
    \o <<"</tbody></table>">>

\* handleCopyMatrix
handleCopyMatrix ==
    /\ copyTimers < MaxCopies
    /\ clipboard' = Some([html |-> Html(MatrixRows), plain |-> Plain(MatrixRows)])
    /\ copyFeedback' = Some("Copied matrix")
    /\ copyTimers' = copyTimers + 1
    /\ UNCHANGED <<db, routeVars, coachVars, treeVars, suggVars, deepVars, asyncVars, history,
                   inputVars, deepStoreVars, headerVars, storeProject,
                   bannerVars>>

\* setTimeout(() => setCopyFeedback(null), 2000) elapses
copyTimerFire ==
    /\ copyTimers > 0
    /\ copyFeedback' = None
    /\ copyTimers' = copyTimers - 1
    /\ UNCHANGED <<db, routeVars, coachVars, treeVars, suggVars, deepVars, asyncVars, history,
                   inputVars, deepStoreVars, headerVars, clipboard,
                   storeProject, bannerVars>>

----------------------------------------------------------------------------
(* The project header: rename and archive *)

\* onClick={() => setIsEditingName(true)}
startEditingName ==
    /\ ~isEditingName
    /\ isEditingName' = TRUE
    /\ history' = [history EXCEPT !.last = Event("editName", 0, 0)]
    /\ UNCHANGED <<db, routeVars, coachVars, treeVars, suggVars, deepVars, asyncVars, inputVars,
                   deepStoreVars, projectName, isArchived, copyVars, storeProject,
                   bannerVars>>

\* onChange={(e) => setProjectName(e.target.value)}
typeProjectName(text) ==
    /\ isEditingName
    /\ projectName' = text
    /\ history' = [history EXCEPT !.last = Event("typeName", 0, text)]
    /\ UNCHANGED <<db, routeVars, coachVars, treeVars, suggVars, deepVars, asyncVars, inputVars,
                   deepStoreVars, isEditingName, isArchived, copyVars, storeProject,
                   bannerVars>>

\* handleSaveProjectName, up to its await
handleSaveProjectName ==
    /\ isEditingName
    /\ opCount < MaxOps
    /\ opCount' = opCount + 1
    /\ isEditingName' = FALSE
    /\ pending' = pending \cup
          (IF db THEN {[BlankCall EXCEPT !.kind = "saveName", !.n = opCount + 1,
                                         !.content = projectName]}
           ELSE {})
    /\ history' = [history EXCEPT !.last = Event("saveName", opCount + 1, projectName)]
    /\ UNCHANGED <<db, routeVars, coachVars, treeVars, suggVars, deepVars, orderWrites, fetchCount,
                   nextId, now, inputVars, deepStoreVars, projectName, isArchived,
                   copyVars, storeProject, bannerVars>>

\* await updateProject(projectId, { name: projectName })  resolves
saveNameResolved(op) ==
    /\ op.kind = "saveName"
    /\ pending' = pending \ {op}
    /\ storeProject' = updateProject(storeProject, [name |-> op.content], now)
    /\ history' = [history EXCEPT !.last = Event("savedName", op.n, op.content)]
    /\ UNCHANGED <<db, routeVars, coachVars, treeVars, suggVars, deepVars, orderWrites, opCount,
                   fetchCount, nextId, now, inputVars, deepStoreVars, projectVars,
                   bannerVars>>

saveNameRejectedReverts(op) ==
    /\ op.kind = "saveName"
    /\ pending' = pending \ {op}
    /\ projectName' = storeProject.name
    /\ history' = [history EXCEPT !.last = Event("saveNameFailed", op.n, op.content),
                                  !.writeFailed = TRUE]
    /\ UNCHANGED <<db, routeVars, coachVars, treeVars, suggVars, deepVars, orderWrites, opCount,
                   fetchCount, nextId, now, inputVars, deepStoreVars, isEditingName,
                   isArchived, copyVars, storeProject, bannerVars>>

\* catch (error) { console.error('Error updating project name:', error); }
saveNameRejected(op) ==
    /\ op.kind = "saveName"
    /\ pending' = pending \ {op}
    /\ history' = [history EXCEPT !.last = Event("saveNameFailed", op.n, op.content),
                                  !.writeFailed = TRUE]
    /\ UNCHANGED <<db, routeVars, coachVars, treeVars, suggVars, deepVars, orderWrites, opCount,
                   fetchCount, nextId, now, inputVars, deepStoreVars, projectVars,
                   storeProject, bannerVars>>

\* handleToggleArchive, up to its await
handleToggleArchive ==
    /\ opCount < MaxOps
    /\ opCount' = opCount + 1
    /\ LET newArchived == ~isArchived
       IN  /\ isArchived' = newArchived
           /\ pending' = pending \cup
                 (IF db THEN {[BlankCall EXCEPT !.kind = "archive", !.n = opCount + 1,
                                                !.isArchived = isArchived,
                                                !.newArchived = newArchived]}
                  ELSE {})
           /\ history' = [history EXCEPT
                  !.last = Event("toggleArchive", opCount + 1, newArchived)]
    /\ UNCHANGED <<db, routeVars, coachVars, treeVars, suggVars, deepVars, orderWrites, fetchCount,
                   nextId, now, inputVars, deepStoreVars, projectName, isEditingName,
                   copyVars, storeProject, bannerVars>>

\* await updateProject(projectId, { archived: newArchived })  resolves
archiveResolved(op) ==
    /\ op.kind = "archive"
    /\ pending' = pending \ {op}
    /\ storeProject' = updateProject(storeProject, [archived |-> op.newArchived], now)
    /\ history' = [history EXCEPT !.last = Event("archived", op.n, op.newArchived)]
    /\ UNCHANGED <<db, routeVars, coachVars, treeVars, suggVars, deepVars, orderWrites, opCount,
                   fetchCount, nextId, now, inputVars, deepStoreVars, projectVars,
                   bannerVars>>

RollbackSkipped(current, newArchived) == current

\* setIsArchived(!newArchived)
Rollback(current, newArchived) == ~newArchived

\* catch (error) { console.error(...); setIsArchived(!newArchived); }
archiveRejected(op) ==
    /\ op.kind = "archive"
    /\ pending' = pending \ {op}
    /\ isArchived' = Rollback(isArchived, op.newArchived)
    /\ history' = [history EXCEPT !.last = Event("archiveFailed", op.n, op.newArchived),
                                  !.writeFailed = TRUE]
    /\ UNCHANGED <<db, routeVars, coachVars, treeVars, suggVars, deepVars, orderWrites, opCount,
                   fetchCount, nextId, now, inputVars, deepStoreVars, projectName,
                   isEditingName, copyVars, storeProject, bannerVars>>

----------------------------------------------------------------------------
(* Content-edit saves *)

\* The write a save starts without awaiting it; without a store there is none.
SaveWrite(coll, id, field, value) ==
    IF db THEN {UpdateCall(coll, id, field, value, opCount + 1)} ELSE {}

\* handleSaveObservationTitle
handleSaveObservationTitle(obsId, title) ==
    /\ opCount < MaxOps
    /\ opCount' = opCount + 1
    /\ observations' = WithTitle(observations, obsId, title)
    /\ pending' = pending \cup SaveWrite("observations", obsId, "title", title)
    /\ history' = [history EXCEPT !.last = Event("saveTitle", obsId, title)]
    /\ UNCHANGED <<db, routeVars, coachVars, harms, storeObservations, storeHarms, suggVars,
                   deepVars, orderWrites, fetchCount, nextId, now, projVars>>

\* handleSaveObservationContent
handleSaveObservationContent(obsId, content) ==
    /\ opCount < MaxOps
    /\ opCount' = opCount + 1
    /\ observations' = WithContent(observations, obsId, content)
    /\ pending' = pending \cup SaveWrite("observations", obsId, "content", content)
    /\ history' = [history EXCEPT !.last = Event("saveObservation", obsId, content)]
    /\ UNCHANGED <<db, routeVars, coachVars, harms, storeObservations, storeHarms, suggVars,
                   deepVars, orderWrites, fetchCount, nextId, now, projVars>>

\* handleSaveHarmContent
handleSaveHarmContent(harmId, content) ==
    /\ opCount < MaxOps
    /\ opCount' = opCount + 1
    /\ harms' = WithContent(harms, harmId, content)
    /\ pending' = pending \cup SaveWrite("harms", harmId, "content", content)
    /\ history' = [history EXCEPT !.last = Event("saveHarm", harmId, content),
                                  !.roundTrip = None]
    /\ UNCHANGED <<db, routeVars, coachVars, observations, storeObservations, storeHarms, suggVars,
                   deepVars, orderWrites, fetchCount, nextId, now, projVars>>

\* handleSaveCriterionContent
handleSaveCriterionContent(criterionId, content) ==
    /\ opCount < MaxOps
    /\ opCount' = opCount + 1
    /\ criteria' = WithContent(criteria, criterionId, content)
    /\ pending' = pending \cup SaveWrite("criteria", criterionId, "content", content)
    /\ history' = [history EXCEPT !.last = Event("saveCriterion", criterionId, content)]
    /\ UNCHANGED <<db, routeVars, coachVars, treeVars, suggVars, strategies, criterionSuggestions,
                   loadingCriterionSuggestions, strategySuggestions,
                   loadingStrategySuggestions, orderWrites, fetchCount, nextId, now,
                   projVars>>

\* handleSaveStrategyContent
handleSaveStrategyContent(strategyId, content) ==
    /\ opCount < MaxOps
    /\ opCount' = opCount + 1
    /\ strategies' = WithContent(strategies, strategyId, content)
    /\ pending' = pending \cup SaveWrite("strategies", strategyId, "content", content)
    /\ history' = [history EXCEPT !.last = Event("saveStrategy", strategyId, content)]
    /\ UNCHANGED <<db, routeVars, coachVars, treeVars, suggVars, criteria, criterionSuggestions,
                   loadingCriterionSuggestions, strategySuggestions,
                   loadingStrategySuggestions, orderWrites, fetchCount, nextId, now,
                   projVars>>

\* updateDoc(docRef, data) on the document with this id, if the collection
\* holds it.
ApplyUpdate(docs, id, field, value) ==
    {IF d.id = id
     THEN [k \in DOMAIN d \cup {field} |-> IF k = field THEN value ELSE d[k]]
     ELSE d : d \in docs}

\* updateObservation / updateHarm / updateCriterion / updateStrategy resolves:
\* the document is updated and the project's timestamp refreshed.
updateResolved(op) ==
    /\ op.kind = "update"
    /\ pending' = pending \ {op}
    /\ storeObservations' = (IF op.coll = "observations"
                             THEN ApplyUpdate(storeObservations, op.target, op.field,
                                              op.content)
                             ELSE storeObservations)
    /\ storeHarms' = (IF op.coll = "harms"
                      THEN ApplyUpdate(storeHarms, op.target, op.field, op.content)
                      ELSE storeHarms)
    /\ storeCriteria' = (IF op.coll = "criteria"
                         THEN ApplyUpdate(storeCriteria, op.target, op.field, op.content)
                         ELSE storeCriteria)
    /\ storeStrategies' = (IF op.coll = "strategies"
                           THEN ApplyUpdate(storeStrategies, op.target, op.field,
                                            op.content)
                           ELSE storeStrategies)
    /\ storeProject' = updateProject(storeProject, <<>>, now)
    /\ history' = [history EXCEPT !.last = Event("updated", op.target, op.n)]
    /\ UNCHANGED <<db, routeVars, coachVars, observations, harms, suggVars, deepVars, orderWrites,
                   opCount, fetchCount, nextId, now, inputVars, projectVars, bannerVars>>

\* .catch(e => console.error('Failed to save ...', e))
updateRejected(op) ==
    /\ op.kind = "update"
    /\ pending' = pending \ {op}
    /\ history' = [history EXCEPT !.last = Event("updateFailed", op.target, op.n),
                                  !.writeFailed = TRUE]
    /\ UNCHANGED <<db, routeVars, coachVars, treeVars, suggVars, deepVars, orderWrites, opCount,
                   fetchCount, nextId, now, projVars>>

----------------------------------------------------------------------------
(* deleteProject: the cascade over the store *)

\* The project the page shows, and another project of the same store.
ThisProject == "this"
OtherProject == "other"

\* The document as addDoc wrote it: every create stores the projectId.
Scoped(d, projectId) ==
    [k \in DOMAIN d \cup {"projectId"} |-> IF k = "projectId" THEN projectId ELSE d[k]]

\* query(collection(db, name), where('projectId', '==', projectId))
ScopedTo(docs, projectId) == {d \in docs : d.projectId = projectId}

\* collection(db, name)
Collection(name) ==
    CASE name = "observations" -> storeObservations
      [] name = "harms" -> storeHarms
      [] name = "criteria" -> storeCriteria
      [] OTHER -> storeStrategies

PhaseAfterSkipsChildren(name) ==
    CASE name = "observations" -> "project"
      [] name = "harms" -> "criteria"
      [] name = "criteria" -> "strategies"
      [] OTHER -> "project"

\* The statement of deleteProject that follows the one working on name.
PhaseAfter(name) ==
    CASE name = "observations" -> "harms"
      [] name = "harms" -> "criteria"
      [] name = "criteria" -> "strategies"
      [] OTHER -> "project"

\* The deleteDoc calls of one Promise.all that have not settled.
DeletesOf(op) == {d \in pending : d.kind = "deleteDoc" /\ d.n = op.n /\ d.coll = op.coll}

\* The store with the document id removed from the collection name.
RemoveDoc(name, id) ==
    /\ storeObservations' = (IF name = "observations"
                             THEN StoreWithout(storeObservations, id)
                             ELSE storeObservations)
    /\ storeHarms' = (IF name = "harms" THEN StoreWithout(storeHarms, id)
                      ELSE storeHarms)
    /\ storeCriteria' = (IF name = "criteria" THEN StoreWithout(storeCriteria, id)
                         ELSE storeCriteria)
    /\ storeStrategies' = (IF name = "strategies" THEN StoreWithout(storeStrategies, id)
                           ELSE storeStrategies)

cascadeFrame ==
    UNCHANGED <<db, routeVars, coachVars, observations, harms, suggVars, deepVars, orderWrites,
                fetchCount, nextId, now, inputVars, projectVars, bannerVars>>

\* deleteProject(projectId), up to the getDocs of deleteObservationsByProject
deleteProject ==
    /\ db
    /\ storeProject # None
    /\ opCount < MaxOps
    /\ ~\E op \in pending : op.kind = "deleteProject"
    /\ opCount' = opCount + 1
    /\ pending' = pending \cup
          {[BlankCall EXCEPT !.kind = "deleteProject", !.n = opCount + 1,
                             !.coll = "observations", !.field = "getDocs"]}
    /\ history' = [history EXCEPT !.last = Event("deleteProject", opCount + 1, 0)]
    /\ UNCHANGED <<storeObservations, storeHarms, deepStoreVars, storeProject>>
    /\ cascadeFrame

\* getDocs(q) resolves: one deleteDoc is started for every document found
\* and Promise.all waits for them.
getDocsResolved(op) ==
    /\ op.kind = "deleteProject"
    /\ op.field = "getDocs"
    /\ pending' = (pending \ {op}) \cup {[op EXCEPT !.field = "all"]} \cup
          {[BlankCall EXCEPT !.kind = "deleteDoc", !.n = op.n, !.coll = op.coll,
                             !.target = d.id] :
              d \in ScopedTo(Collection(op.coll), ThisProject)}
    /\ history' = [history EXCEPT !.last = Event("snapshot", op.n, op.coll)]
    /\ UNCHANGED <<storeObservations, storeHarms, deepStoreVars, storeProject, opCount>>
    /\ cascadeFrame

\* getDocs(q) rejects: deleteProject throws.
getDocsRejected(op) ==
    /\ op.kind = "deleteProject"
    /\ op.field = "getDocs"
    /\ pending' = pending \ {op}
    /\ history' = [history EXCEPT !.last = Event("deleteProjectFailed", op.n, op.coll),
                                  !.writeFailed = TRUE]
    /\ UNCHANGED <<storeObservations, storeHarms, deepStoreVars, storeProject, opCount>>
    /\ cascadeFrame

\* deleteDoc(doc.ref) of a child document resolves
deleteDocResolved(d) ==
    /\ d.kind = "deleteDoc"
    /\ pending' = pending \ {d}
    /\ RemoveDoc(d.coll, d.target)
    /\ history' = [history EXCEPT !.last = Event("deletedDoc", d.n, <<d.coll, d.target>>)]
    /\ UNCHANGED <<storeProject, opCount>>
    /\ cascadeFrame

\* deleteDoc(doc.ref) of a child document rejects: the Promise.all that waits
\* for it rejects and deleteProject throws; the other deleteDoc calls of the
\* batch stay in flight.
deleteDocRejected(d) ==
    /\ d.kind = "deleteDoc"
    /\ LET waiting == {op \in pending : /\ op.kind = "deleteProject"
                                         /\ op.field = "all"
                                         /\ op.n = d.n
                                         /\ op.coll = d.coll}
       IN  /\ pending' = (pending \ {d}) \ waiting
           /\ history' = [history EXCEPT
                  !.last = Event(IF waiting # {} THEN "deleteProjectFailed"
                                 ELSE "deleteDocFailed", d.n, d.coll),
                  !.writeFailed = TRUE]
    /\ UNCHANGED <<storeObservations, storeHarms, deepStoreVars, storeProject, opCount>>
    /\ cascadeFrame

\* Promise.all resolves, every deleteDoc of the batch having resolved:
\* deleteProject goes on to its next statement.
allResolved(op) ==
    /\ op.kind = "deleteProject"
    /\ op.field = "all"
    /\ DeletesOf(op) = {}
    /\ pending' = (pending \ {op}) \cup
          {[op EXCEPT !.coll = PhaseAfter(op.coll),
                      !.field = IF PhaseAfter(op.coll) = "project" THEN "deleteDoc"
                                ELSE "getDocs"]}
    /\ history' = [history EXCEPT !.last = Event("phaseDone", op.n, op.coll)]
    /\ UNCHANGED <<storeObservations, storeHarms, deepStoreVars, storeProject, opCount>>
    /\ cascadeFrame

\* await deleteDoc(docRef) of the project resolves: deleteProject returns.
projectDeleteResolved(op) ==
    /\ op.kind = "deleteProject"
    /\ op.field = "deleteDoc"
    /\ pending' = pending \ {op}
    /\ storeProject' = None
    /\ history' = [history EXCEPT !.last = Event("deletedProject", op.n, 0)]
    /\ UNCHANGED <<storeObservations, storeHarms, deepStoreVars, opCount>>
    /\ cascadeFrame

\* await deleteDoc(docRef) of the project rejects: deleteProject throws.
projectDeleteRejected(op) ==
    /\ op.kind = "deleteProject"
    /\ op.field = "deleteDoc"
    /\ pending' = pending \ {op}
    /\ history' = [history EXCEPT !.last = Event("deleteProjectFailed", op.n, op.coll),
                                  !.writeFailed = TRUE]
    /\ UNCHANGED <<storeObservations, storeHarms, deepStoreVars, storeProject, opCount>>
    /\ cascadeFrame

----------------------------------------------------------------------------
(* The suggestion route: filling the prompt *)

\* A prompt is a sequence of tokens; a placeholder is one token.
SuggestionTypes == {"harms", "criteria", "strategies", "observationCoaching", "insightTitle"}

\* defaultPrompts, each template cut down to a word and its placeholders in
\* the order the template has them.
defaultPrompts ==
    [type \in SuggestionTypes |->
        CASE type = "harms" -> <<"harms:", "{{observations}}">>
          [] type = "criteria" -> <<"criteria:", "{{harm}}", "{{observations}}">>
          [] type = "strategies" -> <<"strategies:", "{{criterion}}", "{{harm}}">>
          [] type = "observationCoaching" -> <<"coach:", "{{observation}}">>
          [] type = "insightTitle" ->
                <<"title:", "{{observation}}", "{{harm}}", "{{criterion}}">>]

\* fetchSuggestions: the body it posts, with the template of the type.
RequestOf(type, context) ==
    [type |-> type, prompt |-> defaultPrompts[type], context |-> context]

\* A replacement string as String.prototype.replace reads it: $& stands for
\* the text that matched, $$ for a dollar sign.
Expand(value, matched) ==
    [i \in 1..Len(value) |->
        CASE value[i] = "$&" -> matched
          [] value[i] = "$$" -> "$"
          [] OTHER -> value[i]]

RECURSIVE ReplaceAll(_, _, _)
\* prompt.replace(/\{\{name\}\}/g, value)
ReplaceAll(prompt, placeholder, value) ==
    IF prompt = <<>> THEN <<>>
    ELSE (IF Head(prompt) = placeholder THEN Expand(value, placeholder)
          ELSE <<Head(prompt)>>) \o ReplaceAll(Tail(prompt), placeholder, value)

\* if (context.name) : the field is there and is not the empty string
Supplied(context, name) == name \in DOMAIN context /\ context[name] # <<>>

FilledWith(prompt, context, name) ==
    IF Supplied(context, name)
    THEN ReplaceAll(prompt, "{{" \o name \o "}}", context[name])
    ELSE prompt

\* The substitutions POST makes: observations, harm, criterion.
FillPrompt(prompt, context) ==
    FilledWith(FilledWith(FilledWith(prompt, context, "observations"),
                          context, "harm"),
               context, "criterion")

----------------------------------------------------------------------------
(* The suggestion route: parsing the completion *)

NL == "\n"

RECURSIVE Split(_)
\* responseText.split('\n')
Split(text) ==
    IF \A i \in 1..Len(text) : text[i] # NL THEN <<text>>
    ELSE LET k == CHOOSE i \in 1..Len(text) :
                      text[i] = NL /\ \A j \in 1..(i - 1) : text[j] # NL
         IN  <<SubSeq(text, 1, k - 1)>> \o Split(SubSeq(text, k + 1, Len(text)))

\* .map(line => line.trim())
Trimmed(lines) == [i \in 1..Len(lines) |-> Trim(lines[i])]

\* .filter(line => line.length > 0)
NonEmpty(lines) == SelectSeq(lines, LAMBDA line : Len(line) > 0)

\* The characters of the class [-\u2022*]; the bullet U+2022 is written "o".
BulletChars == {"-", "o", "*"}

\* line.replace(/^[-\u2022*]\s*/, '')
StripBullet(line) ==
    IF line # <<>> /\ Head(line) \in BulletChars THEN TrimStart(Tail(line))
    ELSE line

IsDigit(c) == c \in {"0", "1", "2", "3", "4", "5", "6", "7", "8", "9"}

\* The length of the longest prefix of digits.
Digits(line) ==
    IF \A i \in 1..Len(line) : IsDigit(line[i]) THEN Len(line)
    ELSE (CHOOSE i \in 1..Len(line) :
              ~IsDigit(line[i]) /\ \A j \in 1..(i - 1) : IsDigit(line[j])) - 1

\* line.replace(/^\d+[.)]\s*/, '')
StripNumber(line) ==
    LET k == Digits(line)
    IN  IF k >= 1 /\ Len(line) > k /\ line[k + 1] \in {".", ")"}
        THEN TrimStart(SubSeq(line, k + 2, Len(line)))
        ELSE line

\* .map(line => line.replace(/^[-\u2022*]\s*/, '').replace(/^\d+[.)]\s*/, ''))
Stripped(lines) == [i \in 1..Len(lines) |-> StripNumber(StripBullet(lines[i]))]

\* The suggestions the route makes of the text of a completion.
ParseSuggestions(text) == Stripped(NonEmpty(Trimmed(Split(text))))

\* POST, from the text of the completion to the JSON it returns
POST ==
    /\ suggestions = None
    /\ IsSome(request)
    /\ Get(request).prompt # <<>>
    /\ filledPrompt' = Some(FillPrompt(Get(request).prompt, Get(request).context))
    /\ suggestions' = Some(ParseSuggestions(responseText))
    /\ history' = [history EXCEPT !.last = Event("POST", 0, 0)]
    /\ UNCHANGED <<db, request, responseText, coachVars, treeVars, suggVars, deepVars, asyncVars,
                   projVars>>

----------------------------------------------------------------------------
(* The store client without a store *)

\* The operations lib/firestore.ts exports for the project page.
ClientOperations ==
    {"getProject", "updateProject",
     "getObservations", "createObservation", "deleteObservation",
     "getHarms", "createHarm", "deleteHarm",
     "getCriteria", "createCriterion", "deleteCriterion",
     "getStrategies", "createStrategy", "deleteStrategy"}

\* new Error('Firestore not initialized')
NotInitialized == "Firestore not initialized"

\* A call of a store-client operation while db is null: the first statement
\* of every operation throws, so nothing is read, written or returned.
invokeWithoutStore(operation) ==
    /\ ~db
    /\ history' = [history EXCEPT !.last = Event("threw", operation, NotInitialized)]
    /\ UNCHANGED <<db, routeVars, coachVars, treeVars, suggVars, deepVars, asyncVars, projVars>>

----------------------------------------------------------------------------
(* Observation order: branch and drag *)

\* An order value is a fraction n/d with d > 0, kept in lowest terms.
RECURSIVE GCD(_, _)
GCD(a, b) == IF b = 0 THEN a ELSE GCD(b, a % b)

Abs(i) == IF i < 0 THEN -i ELSE i

Reduce(q) ==
    LET g == GCD(Abs(q.n), q.d)
    IN  [n |-> q.n \div g, d |-> q.d \div g]

Whole(i) == [n |-> i, d |-> 1]

Sum(a, b) == Reduce([n |-> a.n * b.d + b.n * a.d, d |-> a.d * b.d])

\* (sourceOrder + nextOrder) / 2
Midpoint(a, b) == Reduce([n |-> Sum(a, b).n, d |-> 2 * Sum(a, b).d])

Less(a, b) == a.n * b.d < b.n * a.d

\* observations.findIndex(o => o.id === id), counted from 0; -1 when absent.
IndexOf(obs, id) ==
    IF ObservationKnown(obs, id)
    THEN (CHOOSE p \in 1..Len(obs) :
              obs[p].id = id /\ \A q \in 1..(p - 1) : obs[q].id # id) - 1
    ELSE -1

\* observations[idx].order ?? idx
OrderOr(obs, idx) ==
    IF IsSome(obs[idx + 1].order) THEN Get(obs[idx + 1].order) ELSE Whole(idx)

\* The order value handleAddObservationFromBranch computes.
BranchOrder(obs, idx) ==
    LET sourceOrder == OrderOr(obs, idx)
        nextOrder == IF idx + 1 < Len(obs)
                     THEN OrderOr(obs, idx + 1)
                     ELSE Sum(sourceOrder, Whole(1))
    IN  Midpoint(sourceOrder, nextOrder)

\* const next = [...observations]; next.splice(idx + 1, 0, obs)
InsertAfter(obs, idx, o) ==
    SubSeq(obs, 1, idx + 1) \o <<o>> \o SubSeq(obs, idx + 2, Len(obs))

ContentOf(obs, id) == obs[IndexOf(obs, id) + 1].content

\* handleAddObservationFromBranch(sourceObsId, the source's content) up to its
\* await (all of it when no store is configured).
handleAddObservationFromBranch(sourceObsId) ==
    /\ ObservationKnown(observations, sourceObsId)
    /\ opCount < MaxMoves
    /\ opCount' = opCount + 1
    /\ LET idx == IndexOf(observations, sourceObsId)
           branchOrder == BranchOrder(observations, idx)
           content == ContentOf(observations, sourceObsId)
       IN  IF db
           THEN /\ pending' = pending \cup
                      {[BlankCall EXCEPT !.kind = "branch", !.n = opCount + 1,
                                         !.target = sourceObsId, !.content = content,
                                         !.idx = idx, !.order = Some(branchOrder),
                                         !.snapObservations = observations]}
                /\ history' = [history EXCEPT
                      !.last = Event("branch", sourceObsId, 0)]
                /\ UNCHANGED <<observations, nextId, now>>
           ELSE /\ observations' = InsertAfter(observations, idx,
                      NewObservation(nextId, content, Some(branchOrder), now))
                /\ nextId' = nextId + 1
                /\ now' = now + 1
                /\ history' = [history EXCEPT
                      !.last = Event("branched", sourceObsId, nextId)]
                /\ UNCHANGED pending
    /\ UNCHANGED <<db, routeVars, coachVars, harms, storeObservations, storeHarms, suggVars,
                   orderWrites, fetchCount>>
    /\ UNCHANGED deepVars
    /\ UNCHANGED projVars

\* handleAddObservationFromBranch after  await createObservation(...)  resolved.
\* createObservation takes (projectId, content): the document gets no order.
branchResolved(op) ==
    /\ op.kind = "branch"
    /\ pending' = pending \ {op}
    /\ storeObservations' = storeObservations \cup
           {[id |-> nextId, content |-> op.content, order |-> None, createdAt |-> now]}
    /\ observations' = InsertAfter(op.snapObservations, op.idx,
           NewObservation(nextId, op.content, op.order, now))
    /\ nextId' = nextId + 1
    /\ now' = now + 1
    /\ history' = [history EXCEPT !.last = Event("branched", op.target, nextId)]
    /\ UNCHANGED <<db, routeVars, coachVars, harms, storeHarms, suggVars, orderWrites, opCount,
                   fetchCount>>
    /\ UNCHANGED deepVars
    /\ storeProject' = updateProject(storeProject, <<>>, now)
    /\ UNCHANGED <<inputVars, deepStoreVars, projectVars, bannerVars>>

\* handleAddObservationFromBranch after  await createObservation(...)  threw.
branchRejected(op) ==
    /\ op.kind = "branch"
    /\ pending' = pending \ {op}
    /\ history' = [history EXCEPT !.last = Event("branchFailed", op.target, 0),
                                  !.writeFailed = TRUE]
    /\ UNCHANGED <<db, routeVars, coachVars, treeVars, suggVars, orderWrites, opCount,
                   fetchCount, nextId, now>>
    /\ UNCHANGED deepVars
    /\ \E detail \in ErrorDetails : showError("Failed to branch observation", detail)
    /\ UNCHANGED <<inputVars, deepStoreVars, projectVars, storeProject>>

\* arrayMove of @dnd-kit/sortable:
\*   newArray.splice(to, 0, newArray.splice(from, 1)[0])
arrayMove(arr, from, to) ==
    LET item == arr[from + 1]
        rest == SubSeq(arr, 1, from) \o SubSeq(arr, from + 2, Len(arr))
    IN  SubSeq(rest, 1, to) \o <<item>> \o SubSeq(rest, to + 1, Len(rest))

OrderUpdatesFromOne(reordered) ==
    [p \in 1..Len(reordered) |-> [id |-> reordered[p].id, order |-> p]]

\* reordered.map((obs, i) => ({ id: obs.id, order: i }))
OrderUpdates(reordered) ==
    [p \in 1..Len(reordered) |-> [id |-> reordered[p].id, order |-> p - 1]]

\* handleDragEnd({active, over}); over is None for a drop on no target.
handleDragEnd(active, over) ==
    /\ opCount < MaxMoves
    /\ opCount' = opCount + 1
    /\ IF \/ over = None
          \/ active = Get(over)
          \/ IndexOf(observations, active) = -1
          \/ IndexOf(observations, Get(over)) = -1
       THEN /\ history' = [history EXCEPT !.last = Event("drop", active, over)]
            /\ UNCHANGED <<observations, orderWrites>>
       ELSE LET reordered == arrayMove(observations,
                                       IndexOf(observations, active),
                                       IndexOf(observations, Get(over)))
            IN  /\ observations' = reordered
                /\ orderWrites' = (IF db
                                   THEN Append(orderWrites, OrderUpdates(reordered))
                                   ELSE orderWrites)
                /\ history' = [history EXCEPT
                      !.last = Event("drag", active, Get(over))]
    /\ UNCHANGED <<db, routeVars, coachVars, harms, storeObservations, storeHarms, suggVars,
                   pending, fetchCount, nextId, now>>
    /\ UNCHANGED deepVars
    /\ UNCHANGED projVars

\* updateObservationOrder(updates): every listed document gets its order, the
\* batches of one client in the order they were issued.
ApplyOrderUpdates(docs, updates) ==
    {IF \E p \in 1..Len(updates) : updates[p].id = d.id
     THEN [d EXCEPT !.order =
              Some(Whole(updates[CHOOSE p \in 1..Len(updates) :
                                    updates[p].id = d.id].order))]
     ELSE d : d \in docs}

updateObservationOrderResolved ==
    /\ orderWrites # <<>>
    /\ orderWrites' = Tail(orderWrites)
    /\ storeObservations' = ApplyOrderUpdates(storeObservations, Head(orderWrites))
    /\ history' = [history EXCEPT !.last = Event("orderWritten", 0, 0)]
    /\ UNCHANGED <<db, routeVars, coachVars, observations, harms, storeHarms, suggVars, pending,
                   opCount, fetchCount, nextId, now>>
    /\ UNCHANGED deepVars
    /\ UNCHANGED projVars

\* The batch was rejected; the catch only logs.
updateObservationOrderRejected ==
    /\ orderWrites # <<>>
    /\ orderWrites' = Tail(orderWrites)
    /\ history' = [history EXCEPT !.last = Event("orderWriteFailed", 0, 0),
                                  !.writeFailed = TRUE]
    /\ UNCHANGED <<db, routeVars, coachVars, treeVars, suggVars, pending, opCount, fetchCount,
                   nextId, now>>
    /\ UNCHANGED deepVars
    /\ UNCHANGED projVars

----------------------------------------------------------------------------
(* Opening the project again: loadProjectData reads the store *)

\* The orders in which a query may hand back a set of documents.
Orderings(docs) ==
    {s \in [1..Cardinality(docs) -> docs] :
        \A i, j \in 1..Cardinality(docs) : i # j => s[i] # s[j]}

\* sort((a, b) => a.createdAt.getTime() - b.createdAt.getTime()) : the results
\* the sort can give; documents of equal time stay as the query returned them.
ByCreatedAt(docs) ==
    {s \in Orderings(docs) :
        \A i, j \in 1..Len(s) : i < j => s[i].createdAt <= s[j].createdAt}

\* ({ id: doc.id, ...doc.data() }) as Observation
AsObservation(d) ==
    [id |-> d.id, content |-> d.content, order |-> d.order,
     title |-> (IF "title" \in DOMAIN d THEN Some(d.title) ELSE None),
     createdAt |-> d.createdAt]

\* getObservations(projectId): what the call may return.
getObservations(docs) ==
    {[i \in 1..Len(s) |-> AsObservation(s[i])] : s \in ByCreatedAt(docs)}

\* getHarms(projectId): what the call may return.
getHarms(docs) == ByCreatedAt(docs)

\* loadProjectData of a page opened again, after its await resolved.
\* getCriteria and getStrategies do not sort.
loadProjectData ==
    /\ db
    /\ \E obs \in getObservations(storeObservations), hrms \in getHarms(storeHarms),
          crits \in Orderings(storeCriteria), strats \in Orderings(storeStrategies) :
          /\ observations' = obs
          /\ harms' = hrms
          /\ criteria' = crits
          /\ strategies' = strats
    /\ IF storeProject # None
       THEN /\ projectName' = storeProject.name
            /\ isArchived' = storeProject.archived
       ELSE UNCHANGED <<projectName, isArchived>>
    /\ history' = [history EXCEPT !.last = Event("loaded", 0, 0)]
    /\ UNCHANGED <<db, routeVars, coachVars, storeObservations, storeHarms, suggVars,
                   criterionSuggestions, loadingCriterionSuggestions,
                   strategySuggestions, loadingStrategySuggestions, asyncVars,
                   inputVars, deepStoreVars, isEditingName, copyVars, storeProject,
                   bannerVars>>

----------------------------------------------------------------------------
(* Initial states: the page after loadProjectData has finished *)

\* With a store the collections are what the store returned; without one they
\* are what the user has entered in this session.
InitPageWith(modes, docsO, docsH, docsC, docsS, listO, listH, listC, listS, project) ==
    /\ db \in modes
    /\ newObservation = <<>>
    /\ coachingText = None
    /\ loadingCoaching = FALSE
    /\ coachingTimerRef = 0
    /\ coachingAbortRef = 0
    /\ timers = <<>>
    /\ controllers = <<>>
    /\ coachingFrom = 0
    /\ storeObservations = (IF db THEN docsO ELSE {})
    /\ storeHarms = (IF db THEN docsH ELSE {})
    /\ observations = listO
    /\ harms = listH
    /\ harmSuggestions = <<>>
    /\ loadingHarmSuggestions = <<>>
    /\ customHarmInputs = <<>>
    /\ detailItem = 0
    /\ criteria = listC
    /\ strategies = listS
    /\ criterionSuggestions = <<>>
    /\ loadingCriterionSuggestions = <<>>
    /\ strategySuggestions = <<>>
    /\ loadingStrategySuggestions = <<>>
    /\ pending = {}
    /\ orderWrites = <<>>
    /\ opCount = 0
    /\ fetchCount = 0
    /\ nextId = 1
    /\ now = 1
    /\ customCriterionInputs = <<>>
    /\ customStrategyInputs = <<>>
    /\ storeCriteria = (IF db THEN docsC ELSE {})
    /\ storeStrategies = (IF db THEN docsS ELSE {})
    /\ projectName = (IF db THEN project.name ELSE Untitled)
    /\ isEditingName = FALSE
    /\ isArchived = (IF db THEN project.archived ELSE FALSE)
    /\ clipboard = None
    /\ copyFeedback = None
    /\ copyTimers = 0
    /\ storeProject = project
    /\ errorMessage = None
    /\ errorTimers = 0
    /\ history = [last |-> Event("init", 0, 0), initialFetches |-> <<>>,
                  created |-> {}, deleted |-> {}, writeFailed |-> FALSE,
                  roundTrip |-> None, returned |-> None]

\* No request is being served by the suggestion route.
InitStoreWith(modes, docsO, docsH, docsC, docsS, listO, listH, listC, listS, project) ==
    /\ InitPageWith(modes, docsO, docsH, docsC, docsS, listO, listH, listC, listS,
                    project)
    /\ request = None
    /\ filledPrompt = None
    /\ responseText = <<>>
    /\ suggestions = None

\* The store holds the documents of the criteria and strategies in memory.
InitProjectWith(modes, docsO, docsH, listO, listH, listC, listS, project) ==
    InitStoreWith(modes, docsO, docsH,
                  {CriterionDoc(listC[i]) : i \in 1..Len(listC)},
                  {StrategyDoc(listS[i]) : i \in 1..Len(listS)},
                  listO, listH, listC, listS, project)

\* The project as createProject wrote it.
FreshProject == [name |-> ProjectTitle, archived |-> FALSE, updatedAt |-> 0]

InitTreeWith(modes, docsO, docsH, listO, listH, listC, listS) ==
    InitProjectWith(modes, docsO, docsH, listO, listH, listC, listS, FreshProject)

InitWith(modes, docsO, docsH, listO, listH, listC) ==
    InitTreeWith(modes, docsO, docsH, listO, listH, listC, <<>>)

\* A new, empty project.
Init == InitWith(BOOLEAN, {}, {}, <<>>, <<>>, <<>>)

(* The coaching loop with a store that accepts every create; the user submits
   only when the box holds text *)

NextCoach ==
    \/ \E text \in InputTexts : handleObservationChange(text)
    \/ \E i \in 1..Len(timers) : coachingTimerFire(i)
    \/ \E k \in 1..Len(controllers), r \in CoachingResults : coachingResponse(k, r)
    \/ \E k \in 1..Len(controllers) : coachingError(k)
    \/ Trim(newObservation) # <<>> /\ handleAddObservation
    \/ \E op \in pending : createObservationResolved(op)

SpecCoach == Init /\ [][NextCoach]_vars

----------------------------------------------------------------------------
(* Claims about the coaching loop, checked under SpecCoach *)

CoachingIsForCurrentText ==
    IsSome(coachingText) =>
        /\ coachingFrom # 0
        /\ ~controllers[coachingFrom].aborted
        /\ controllers[coachingFrom].text = Trim(newObservation)

CancelledResponseIsDiscarded ==
    \A k \in 1..Len(controllers) :
        (controllers[k].aborted /\ ~controllers[k].settled /\ controllers'[k].settled)
            => /\ coachingText' = coachingText
               /\ loadingCoaching' = loadingCoaching

RequestsOfTimer(i) == {k \in 1..Len(controllers) : controllers[k].timer = i}

\* C2: a text change cancels the timer armed by the previous one, so only the
\* timer armed last can still be pending; a cancelled timer sends no request,
\* a fired one sends exactly one, carrying the trimmed text it was armed for.
\* Two quick changes therefore send one request, for the second text.
C2_OneRequestForLastText ==
    /\ \A i \in 1..Len(timers) : timers[i].state = "armed" => i = Len(timers)
    /\ \A i \in 1..Len(timers) :
          Cardinality(RequestsOfTimer(i)) = (IF timers[i].state = "fired" THEN 1 ELSE 0)
    /\ \A k \in 1..Len(controllers) :
          controllers[k].text = Trim(timers[controllers[k].timer].text)

\* Two changes with different coachable texts, the second before the first
\* timer elapsed: one request, carrying the second text.
C2_Witness ==
    /\ Len(timers) = 2
    /\ timers[1].text # timers[2].text
    /\ timers[1].state = "cleared"
    /\ timers[2].state = "fired"
    /\ Len(controllers) = 1
    /\ controllers[1].text = Trim(timers[2].text)

----------------------------------------------------------------------------
(* A project with two observations, the first of which has a harm *)

ObsDoc(id, content, createdAt) ==
    [id |-> id, content |-> content, order |-> None, createdAt |-> createdAt]
HarmDoc(id, obsIds, content, createdAt, via) ==
    [id |-> id, observationIds |-> obsIds, content |-> content,
     createdAt |-> createdAt, via |-> via]

\* Ids and times of what the project held before the page was opened.
FirstObs == 101
SecondObs == 102
ThirdObs == 103
OldHarm == 111

SharedHarm == 112

TwoObservations ==
    <<NewObservation(FirstObs, Ten, None, -3), NewObservation(SecondObs, Eleven, None, -2)>>

(* The suggestion cache *)

InitSuggest ==
    InitWith(BOOLEAN, {ObsDoc(FirstObs, Ten, -3), ObsDoc(SecondObs, Eleven, -2)},
             {HarmDoc(OldHarm, {FirstObs}, HarmB, -1, 0)},
             TwoObservations,
             <<[NewHarm(OldHarm, FirstObs, HarmB, -1) EXCEPT !.via = 0]>>,
             <<>>)

FetchSettles ==
    \/ \E op \in pending, r \in FetchResults : fetchHarmsResolved(op, r)
    \/ \E op \in pending : fetchHarmsRejected(op)
    \/ \E op \in pending, r \in FetchResults : moreHarmsResolved(op, r)
    \/ \E op \in pending : moreHarmsRejected(op)

NextSuggest ==
    \/ \E o \in ObservationIds : openDetail(o)
    \/ closeDetail
    \/ \E o \in ObservationIds : handleHarmInputFocus(o)
    \/ \E o \in ObservationIds : generateMoreHarmSuggestions(o)
    \/ FetchSettles

SpecSuggest == InitSuggest /\ [][NextSuggest]_vars

(* Claims about the suggestion cache *)

\* C6: for each parent node at most one initial suggestion fetch is ever
\* issued, whichever focus and expansion events reach the node, and also when
\* the auto-load effect and the focus handler of the harm input both run for
\* the node from the same render.
C6_AtMostOneInitialFetch ==
    \A o \in DOMAIN history.initialFetches : history.initialFetches[o] <= 1

----------------------------------------------------------------------------
(* Fetches of the three suggestion caches *)

OldCriterion == 121

\* FirstObs has a harm and the harm has a criterion.  No fetch handler reads
\* db, so one mode is enough.
InitFocus ==
    InitWith({TRUE}, {ObsDoc(FirstObs, Ten, -3), ObsDoc(SecondObs, Eleven, -2)},
             {HarmDoc(OldHarm, {FirstObs}, HarmB, -1, 0)},
             TwoObservations,
             <<[NewHarm(OldHarm, FirstObs, HarmB, -1) EXCEPT !.via = 0]>>,
             <<NewCriterion(OldCriterion, OldHarm, HarmC)>>)

\* A suggestion request is answered, with a result or with an error.
AnswerSteps ==
    \/ \E op \in pending, r \in FetchResults : fetchHarmsResolved(op, r)
    \/ \E op \in pending : fetchHarmsRejected(op)
    \/ \E op \in pending, r \in FetchResults : moreHarmsResolved(op, r)
    \/ \E op \in pending : moreHarmsRejected(op)
    \/ \E op \in pending, r \in FetchResults : fetchCriteriaResolved(op, r)
    \/ \E op \in pending : fetchCriteriaRejected(op)
    \/ \E op \in pending, r \in FetchResults : moreCriteriaResolved(op, r)
    \/ \E op \in pending : moreCriteriaRejected(op)
    \/ \E op \in pending, r \in FetchResults : fetchStrategiesResolved(op, r)
    \/ \E op \in pending : fetchStrategiesRejected(op)
    \/ \E op \in pending, r \in FetchResults : moreStrategiesResolved(op, r)
    \/ \E op \in pending : moreStrategiesRejected(op)

NextFocus ==
    \/ \E o \in ObservationIds : handleHarmInputFocus(o)
    \/ \E h \in HarmIds(harms) : handleCriterionInputFocus(h)
    \/ \E c \in CriterionIds : handleStrategyInputFocus(c)
    \/ \E o \in ObservationIds : generateMoreHarmSuggestions(o)
    \/ \E h \in HarmIds(harms) : generateMoreCriterionSuggestions(h)
    \/ \E c \in CriterionIds : generateMoreStrategySuggestions(c)
    \/ AnswerSteps

SpecFocus == InitFocus /\ [][NextFocus]_vars

\* The requests the page sends are answered: while one is waiting, an answer
\* arrives eventually.
SpecFocusFair == SpecFocus /\ WF_vars(AnswerSteps)

ContentsOf(list) == [i \in 1..Len(list) |-> list[i].content]

\* What an initial fetch leaves in the cache it belongs to.
OutcomeIn(sugg, loadingMap, fetched, failed) ==
    /\ history'.last.kind = fetched =>
          /\ ContentsOf(sugg[history'.last.a]) = history'.last.b
          /\ ~Truthy(loadingMap, history'.last.a)
    /\ history'.last.kind = failed =>
          /\ sugg[history'.last.a] = <<>>
          /\ ~Truthy(loadingMap, history'.last.a)

InitialFetchOutcome ==
    /\ OutcomeIn(harmSuggestions', loadingHarmSuggestions', "fetched", "fetchFailed")
    /\ OutcomeIn(criterionSuggestions', loadingCriterionSuggestions',
                 "fetchedCriteria", "fetchCriteriaFailed")
    /\ OutcomeIn(strategySuggestions', loadingStrategySuggestions',
                 "fetchedStrategies", "fetchStrategiesFailed")

\* C7: when an initial fetch succeeds the node holds the returned list, when
\* it fails the node holds the empty list, in both cases with the loading flag
\* off; and a node that is loading is eventually not loading, the requests
\* being answered.
C7_LoadingEnds ==
    /\ [][InitialFetchOutcome]_vars
    /\ \A o \in {FirstObs, SecondObs} :
          Truthy(loadingHarmSuggestions, o) ~> ~Truthy(loadingHarmSuggestions, o)
    /\ Truthy(loadingCriterionSuggestions, OldHarm)
          ~> ~Truthy(loadingCriterionSuggestions, OldHarm)
    /\ Truthy(loadingStrategySuggestions, OldCriterion)
          ~> ~Truthy(loadingStrategySuggestions, OldCriterion)

\* A failed initial fetch of strategies has left its node with the empty
\* list, not loading, after a fetch of harms had succeeded.
C7_Witness ==
    /\ history.last.kind = "fetchStrategiesFailed"
    /\ Has(loadingStrategySuggestions, OldCriterion)
    /\ ~loadingStrategySuggestions[OldCriterion]
    /\ strategySuggestions[OldCriterion] = <<>>
    /\ Has(harmSuggestions, FirstObs)
    /\ harmSuggestions[FirstObs] # <<>>
    /\ ~Truthy(loadingHarmSuggestions, FirstObs)

\* What history records when a suggestion fetch, initial or generate-more,
\* was rejected.
FetchFailures ==
    {"fetchFailed", "moreFailed", "fetchCriteriaFailed", "moreCriteriaFailed",
     "fetchStrategiesFailed", "moreStrategiesFailed"}

\* C19: on the step on which a suggestion fetch fails, the error banner
\* becomes set with a message.
C19_FetchFailureShowsBanner ==
    [][(pending' # pending /\ history'.last.kind \in FetchFailures) =>
           IsSome(errorMessage')]_vars

----------------------------------------------------------------------------
(* Harms of a project with two observations and two harms *)

\* What the user may type into a harm input.
HarmTexts == {<<" ">> \o HarmA}

\* FirstObs has a harm worded like the first suggestion; a second harm
\* belongs to both observations.
InitHarms ==
    InitWith(BOOLEAN, {ObsDoc(FirstObs, Ten, -3), ObsDoc(SecondObs, Eleven, -2)},
             {HarmDoc(OldHarm, {FirstObs}, HarmA, -1, 0),
              HarmDoc(SharedHarm, {FirstObs, SecondObs}, HarmC, 0, 0)},
             TwoObservations,
             <<[NewHarm(OldHarm, FirstObs, HarmA, -1) EXCEPT !.via = 0],
               [NewHarm(SharedHarm, FirstObs, HarmC, 0)
                   EXCEPT !.observationIds = {FirstObs, SecondObs}]>>,
             <<>>)

SuggestionIds ==
    UNION {{harmSuggestions[o][i].id : i \in 1..Len(harmSuggestions[o])} :
              o \in DOMAIN harmSuggestions}

StoreSettles ==
    \/ \E op \in pending : toggleOnResolved(op)
    \/ \E op \in pending : toggleOnRejected(op)
    \/ \E op \in pending, done \in BOOLEAN : toggleOffSettled(op, done)
    \/ \E op \in pending : createHarmResolved(op)
    \/ \E op \in pending : createHarmRejected(op)
    \/ \E op \in pending : deleteHarmResolved(op)
    \/ \E op \in pending : deleteHarmRejected(op)

NextHarms ==
    \/ handleHarmInputFocus(FirstObs)
    \/ \E op \in pending, r \in FetchResults : fetchHarmsResolved(op, r)
    \/ \E o \in ObservationIds, sid \in SuggestionIds : toggleHarmSuggestion(o, sid)
    \/ \E o \in ObservationIds, text \in HarmTexts : typeCustomHarm(o, text)
    \/ \E o \in ObservationIds : addCustomHarm(o)
    \/ \E h \in HarmIds(harms) : handleDeleteHarm(h)
    \/ StoreSettles

SpecHarms == InitHarms /\ [][NextHarms]_vars

\* C3: toggling a suggestion on and then off, with nothing in between and a
\* store that did both writes, leaves the (content, parent) sets of the harms
\* in memory and in the store as they were before the toggle-on.
C3_ToggleRoundTrip ==
    (IsSome(history.roundTrip) /\ Get(history.roundTrip).phase = "off") =>
        /\ Entities(harms) = Get(history.roundTrip).mem
        /\ StoreEntities(storeHarms) = Get(history.roundTrip).store

ViaInMemory(sid) == Len(SelectSeq(harms, LAMBDA h : h.via = sid))

ViaInStore(sid) == Cardinality({d \in storeHarms : d.via = sid})

\* C4: when the acceptance of a suggestion has completed, exactly one harm made
\* from that suggestion is in memory and, with a store, exactly one in the store.
C4_OneHarmPerAcceptance ==
    history.last.kind = "toggledOn" =>
        /\ ViaInMemory(history.last.b) = 1
        /\ db => ViaInStore(history.last.b) = 1

\* C5: once every store call has returned, each harm created in the session and
\* not deleted is in memory, and no deleted harm is.
C5_NoLostUpdate ==
    pending = {} =>
        /\ (history.created \ history.deleted) \subseteq HarmIds(harms)
        /\ history.deleted \cap HarmIds(harms) = {}

\* C10: the harms listed for an observation are exactly the harms in memory
\* whose observation ids contain the observation's id, each once, oldest first.
C10_HarmsForObservation ==
    \A o \in {FirstObs, SecondObs, ThirdObs} :
        LET listed == getHarmsForObservation(o)
        IN  /\ Range(listed) = {h \in Range(harms) : o \in h.observationIds}
            /\ Len(listed) = Cardinality({h \in Range(harms) : o \in h.observationIds})
            /\ \A i, j \in 1..Len(listed) :
                  i < j => listed[i].createdAt < listed[j].createdAt

C10_Witness ==
    /\ Len(getHarmsForObservation(FirstObs)) = 4
    /\ Len(getHarmsForObservation(SecondObs)) = 1
    /\ Len(harms) = 4
    /\ pending = {}

\* A harm in memory with this content under this observation.
Matching(obsId, content) ==
    {h \in Range(harms) : h.content = content /\ obsId \in h.observationIds}

\* C24: a suggestion under an observation is selected exactly when a harm with
\* the same content under that observation is in memory, also after the harm
\* was deleted directly or a typed harm of the same content was added.
C24_SelectedIffEntityPresent ==
    \A o \in DOMAIN harmSuggestions : \A i \in 1..Len(harmSuggestions[o]) :
        harmSuggestions[o][i].selected
            <=> Matching(o, harmSuggestions[o][i].content) # {}

\* The harm a delete call of either sort asked the store to remove.
DeletedHarm(op) == IF op.kind = "toggleOff" THEN op.idx ELSE op.target

\* A step on which the delete call op returned without the store having
\* removed the harm it still holds.
HarmDeleteFailed(op) ==
    /\ op.kind \in {"deleteHarm", "toggleOff"}
    /\ DeletedHarm(op) \in {d.id : d \in storeHarms}
    /\ storeHarms' = storeHarms

\* C16: when the store delete of a harm fails, by explicit delete or by
\* toggling its suggestion off, the harms in memory are left as they were.
C16_FailedDeleteLeavesMemory ==
    [][\A op \in pending \ pending' : HarmDeleteFailed(op) => harms' = harms]_vars

\* A step on which the store created, updated or deleted an entity.
StoreMutation ==
    \/ storeObservations' # storeObservations
    \/ storeHarms' # storeHarms
    \/ storeCriteria' # storeCriteria
    \/ storeStrategies' # storeStrategies

\* C20: a step on which the store created, updated or deleted an entity
\* leaves the project's last-updated time no earlier than the time of the step.
C20_MutationRefreshesProject ==
    [][StoreMutation => storeProject'.updatedAt >= now]_vars

----------------------------------------------------------------------------
(* Drags in a project with three observations *)

\* An id no observation has.
Elsewhere == 199

\* A text too short to be coached.
Note == <<"n">>

ThreeObservations ==
    <<NewObservation(FirstObs, Ten, None, -3),
      NewObservation(SecondObs, Eleven, None, -2),
      NewObservation(ThirdObs, Nine, None, -1)>>

InitDrag ==
    InitWith(BOOLEAN, {ObsDoc(FirstObs, Ten, -3), ObsDoc(SecondObs, Eleven, -2),
              ObsDoc(ThirdObs, Nine, -1)}, {}, ThreeObservations, <<>>, <<>>)

DragSteps ==
    \/ \E a \in ObservationIds, o \in ObservationIds \cup {Elsewhere} :
          handleDragEnd(a, Some(o))
    \/ \E a \in ObservationIds : handleDragEnd(a, None)
    \/ updateObservationOrderResolved
    \/ updateObservationOrderRejected

NextDrag == DragSteps

SpecDrag == InitDrag /\ [][NextDrag]_vars

\* The same with two observations, and adds and branches besides the drags.
InitOrder ==
    InitWith(BOOLEAN, {ObsDoc(FirstObs, Ten, -3), ObsDoc(SecondObs, Eleven, -2)}, {},
             TwoObservations, <<>>, <<>>)

NextOrder ==
    \/ handleObservationChange(Note)
    \/ handleAddObservation
    \/ \E op \in pending : createObservationResolved(op)
    \/ \E op \in pending : createObservationRejected(op)
    \/ \E o \in ObservationIds : handleAddObservationFromBranch(o)
    \/ \E op \in pending : branchResolved(op)
    \/ \E op \in pending : branchRejected(op)
    \/ DragSteps

SpecOrder == InitOrder /\ [][NextOrder]_vars

PositionOf(id) == IndexOf(observations, id) + 1

\* The order of the sibling at position p, with the code's fallback to the
\* index the sibling has among the siblings other than the branch at position b.
OrderAt(p, b) ==
    IF IsSome(observations[p].order) THEN Get(observations[p].order)
    ELSE Whole(IF p < b THEN p - 1 ELSE p - 2)

\* C8: when a branch of A has completed, the new observation B stands right
\* after A, order(A) < order(B) < order(next sibling) (only the first when B is
\* last), order(B) is the midpoint of its neighbours' orders, and no harm
\* references B.
C8_BranchBetweenNeighbours ==
    history.last.kind = "branched" =>
        LET a == PositionOf(history.last.a)
            b == PositionOf(history.last.b)
            orderB == OrderAt(b, b)
            orderNext == IF b < Len(observations)
                         THEN OrderAt(b + 1, b)
                         ELSE Sum(OrderAt(a, b), Whole(1))
        IN  /\ a >= 1
            /\ b = a + 1
            /\ Less(OrderAt(a, b), orderB)
            /\ b < Len(observations) => Less(orderB, orderNext)
            /\ orderB = Midpoint(OrderAt(a, b), orderNext)
            /\ getHarmsForObservation(history.last.b) = <<>>

\* array with the element at position p left out
Without(arr, p) == SubSeq(arr, 1, p - 1) \o SubSeq(arr, p + 1, Len(arr))

\* The standard array-move: the moved element stands at the target position
\* and the others keep their relative order.
IsArrayMove(before, after, i, j) ==
    /\ Len(after) = Len(before)
    /\ after[j] = before[i]
    /\ Without(after, j) = Without(before, i)

PersistedOrder(id) ==
    (CHOOSE d \in storeObservations : d.id = id).order

DragMoves ==
    (opCount' = opCount + 1 /\ history'.last.kind = "drag") =>
        /\ IsArrayMove(observations, observations',
                       PositionOf(history'.last.a), PositionOf(history'.last.b))
        /\ db => /\ Len(orderWrites') = Len(orderWrites) + 1
                 /\ LET batch == orderWrites'[Len(orderWrites')]
                    IN  /\ Len(batch) = Len(observations')
                        /\ \A p \in 1..Len(batch) :
                              /\ batch[p].id = observations'[p].id
                              /\ batch[p].order = p - 1
        /\ ~db => orderWrites' = orderWrites

DropChangesNothing ==
    (opCount' = opCount + 1 /\ history'.last.kind = "drop") =>
        UNCHANGED <<observations, orderWrites, storeObservations, pending>>

OrdersPersisted ==
    (/\ db
     /\ orderWrites = <<>>
     /\ ~history.writeFailed
     /\ \E d \in storeObservations : IsSome(d.order)) =>
        \A p \in 1..Len(observations) :
            PersistedOrder(observations[p].id) = Some(Whole(p - 1))

----------------------------------------------------------------------------
(* The tree below the harms: criteria and strategies *)

OldStrategy == 131

CritA == <<"c">>
StratA == <<"s">>

\* What the user may type into a criterion input and into a strategy input.
CriterionTexts == {<<" ">> \o CritA}
StrategyTexts == {StratA \o <<" ">>, HMW}

\* FirstObs has a harm of its own and shares one with SecondObs; the first
\* harm has a criterion and the criterion has a strategy.
InitTree ==
    InitTreeWith(BOOLEAN, {ObsDoc(FirstObs, Ten, -3), ObsDoc(SecondObs, Eleven, -2)},
             {HarmDoc(OldHarm, {FirstObs}, HarmA, -1, 0),
              HarmDoc(SharedHarm, {FirstObs, SecondObs}, HarmC, 0, 0)},
             TwoObservations,
             <<[NewHarm(OldHarm, FirstObs, HarmA, -1) EXCEPT !.via = 0],
               [NewHarm(SharedHarm, FirstObs, HarmC, 0)
                   EXCEPT !.observationIds = {FirstObs, SecondObs}]>>,
             <<NewCriterion(OldCriterion, OldHarm, CritA)>>,
             <<NewStrategy(OldStrategy, OldCriterion, HMW, None)>>)

StrategyIds == {strategies[p].id : p \in 1..Len(strategies)}

TreeSettles ==
    \/ \E op \in pending : createCriterionResolved(op)
    \/ \E op \in pending : createCriterionRejected(op)
    \/ \E op \in pending : deleteCriterionResolved(op)
    \/ \E op \in pending : deleteCriterionRejected(op)
    \/ \E op \in pending, r \in TitleResults : titleResolved(op, r)
    \/ \E op \in pending : titleRejected(op)
    \/ \E op \in pending : createStrategyResolved(op)
    \/ \E op \in pending : createStrategyRejected(op)
    \/ \E op \in pending : deleteStrategyResolved(op)
    \/ \E op \in pending : deleteStrategyRejected(op)

\* The user works on the criteria of the shared harm and on the strategies
\* of the criterion the project came with.
NextTree ==
    \/ \E text \in CriterionTexts : typeCustomCriterion(SharedHarm, text)
    \/ addCustomCriterion(SharedHarm)
    \/ \E c \in CriterionIds : handleDeleteCriterion(c)
    \/ \E text \in StrategyTexts : typeCustomStrategy(OldCriterion, text)
    \/ addCustomStrategy(OldCriterion)
    \/ \E s \in StrategyIds : handleDeleteStrategy(s)
    \/ TreeSettles

SpecTree == InitTree /\ [][NextTree]_vars

\* C11: for every harm in memory the criteria listed for it are exactly the
\* criteria in memory whose harmId is the harm's id, each once and in the order
\* of the collection; likewise the strategies listed for every criterion.
C11_CriteriaForHarm ==
    /\ \A h \in HarmIds(harms) :
          LET listed == getCriteriaForHarm(h)
              owned == {p \in 1..Len(criteria) : criteria[p].harmId = h}
          IN  /\ Range(listed) = {criteria[p] : p \in owned}
              /\ Len(listed) = Cardinality(owned)
    /\ \A c \in CriterionIds :
          LET listed == getStrategiesForCriterion(c)
              owned == {p \in 1..Len(strategies) : strategies[p].criterionId = c}
          IN  /\ Range(listed) = {strategies[p] : p \in owned}
              /\ Len(listed) = Cardinality(owned)

\* Both harms have criteria, a criterion has two strategies, and nothing is
\* in flight.
C11_Witness ==
    /\ Len(getCriteriaForHarm(OldHarm)) = 1
    /\ Len(getCriteriaForHarm(SharedHarm)) = 1
    /\ Len(getStrategiesForCriterion(OldCriterion)) = 2
    /\ pending = {}

\* The number of entities of the collection that have this id.
WithId(list, id) == Cardinality({i \in 1..Len(list) : list[i].id = id})

\* C22: the harm of every criterion in memory is in memory, once, and the
\* criterion of every strategy in memory is in memory, once.
C22_ParentsPresent ==
    /\ \A i \in 1..Len(criteria) : WithId(harms, criteria[i].harmId) = 1
    /\ \A i \in 1..Len(strategies) : WithId(criteria, strategies[i].criterionId) = 1

----------------------------------------------------------------------------
(* The matrix export of a project that grows and shrinks *)

BareHarm == 113

\* The harms the project came with: the first has a criterion with a strategy,
\* the second has no criterion.
MatrixHarms ==
    <<[NewHarm(OldHarm, FirstObs, HarmA, -1) EXCEPT !.via = 0],
      [NewHarm(BareHarm, FirstObs, HarmB, 0) EXCEPT !.via = 0]>>

SecondCriterion == 122
SecondStrategy == 132
ThirdStrategy == 133

CritB == <<"d">>
StratB == <<"t">>

\* The criteria and strategies the project may have come with, oldest first:
\* both criteria belong to the first harm, the first criterion has two
\* strategies and the second has one.
MatrixCriteria ==
    <<NewCriterion(OldCriterion, OldHarm, CritA),
      NewCriterion(SecondCriterion, OldHarm, CritB)>>
MatrixStrategies ==
    <<NewStrategy(OldStrategy, OldCriterion, HMW, None),
      NewStrategy(SecondStrategy, OldCriterion, HMW \o <<" ">> \o StratA, Some("confront")),
      NewStrategy(ThirdStrategy, SecondCriterion, HMW \o <<" ">> \o StratB, None)>>

\* The trees the project may have come with, as the number of observations,
\* harms, criteria and strategies taken from the front of the lists above:
\* a single complete path, and the full tree.
MatrixShapes == {<<1, 1, 1, 1>>, <<2, 2, 2, 3>>}

InitMatrix ==
    \E shape \in MatrixShapes :
        InitTreeWith(BOOLEAN,
             {ObsDoc(TwoObservations[i].id, TwoObservations[i].content, i - 4) :
                 i \in 1..shape[1]},
             {HarmDoc(MatrixHarms[j].id, {FirstObs}, MatrixHarms[j].content, j - 2, 0) :
                 j \in 1..shape[2]},
             SubSeq(TwoObservations, 1, shape[1]),
             SubSeq(MatrixHarms, 1, shape[2]),
             SubSeq(MatrixCriteria, 1, shape[3]),
             SubSeq(MatrixStrategies, 1, shape[4]))

MatrixSettles ==
    \/ \E op \in pending : deleteHarmResolved(op)
    \/ \E op \in pending : deleteHarmRejected(op)
    \/ \E op \in pending : deleteObservationResolved(op)
    \/ \E op \in pending : deleteObservationRejected(op)
    \/ \E op \in pending : deleteCriterionResolved(op)
    \/ \E op \in pending : deleteCriterionRejected(op)
    \/ \E op \in pending : deleteStrategyResolved(op)
    \/ \E op \in pending : deleteStrategyRejected(op)

\* The user copies the matrix, and deletes parts of the tree.
NextMatrix ==
    \/ handleCopyMatrix
    \/ copyTimerFire
    \/ \E h \in HarmIds(harms) : handleDeleteHarm(h)
    \/ \E o \in ObservationIds : handleDeleteObservation(o)
    \/ \E c \in CriterionIds : handleDeleteCriterion(c)
    \/ \E s \in StrategyIds : handleDeleteStrategy(s)
    \/ MatrixSettles

SpecMatrix == InitMatrix /\ [][NextMatrix]_vars

\* Positions of the collections that form a path from an observation down.
HarmPaths ==
    {<<i, j>> \in (1..Len(observations)) \X (1..Len(harms)) :
        observations[i].id \in harms[j].observationIds}
CriterionPaths ==
    {<<p[1], p[2], k>> : p \in HarmPaths, k \in 1..Len(criteria)} \cap
    {q \in (1..Len(observations)) \X (1..Len(harms)) \X (1..Len(criteria)) :
        criteria[q[3]].harmId = harms[q[2]].id}
StrategyPaths ==
    {q \in (1..Len(observations)) \X (1..Len(harms)) \X (1..Len(criteria))
              \X (1..Len(strategies)) :
        /\ <<q[1], q[2], q[3]>> \in CriterionPaths
        /\ strategies[q[4]].criterionId = criteria[q[3]].id}

\* Paths that end early: an observation without harms, a harm of an
\* observation without criteria, a criterion on a path without strategies.
BareObservations == {i \in 1..Len(observations) : \A p \in HarmPaths : p[1] # i}
BareHarmPaths == {p \in HarmPaths : \A q \in CriterionPaths : <<q[1], q[2]>> # p}
BareCriterionPaths ==
    {p \in CriterionPaths : \A q \in StrategyPaths : <<q[1], q[2], q[3]>> # p}

ExpectedRows ==
    {<<observations[q[1]].content, harms[q[2]].content, criteria[q[3]].content,
       strategies[q[4]].content>> : q \in StrategyPaths}
    \cup {<<observations[q[1]].content, harms[q[2]].content, criteria[q[3]].content,
            <<>>>> : q \in BareCriterionPaths}
    \cup {<<observations[q[1]].content, harms[q[2]].content, <<>>, <<>>>> :
             q \in BareHarmPaths}
    \cup {<<observations[i].content, <<>>, <<>>, <<>>>> : i \in BareObservations}

SinglePath ==
    /\ Len(observations) = 1 /\ Len(harms) = 1
    /\ Len(criteria) = 1 /\ Len(strategies) = 1
    /\ StrategyPaths = {<<1, 1, 1, 1>>}

\* C12, as amended: after the header row the matrix has exactly one row per
\* complete observation-harm-criterion-strategy path of the collections in
\* memory, plus one row with blank trailing columns for every path that ends
\* early; every row carries the texts of its ancestors; a single complete path
\* gives exactly one row with the four texts in that order.
C12_OneRowPerPath ==
    LET rows == MatrixRows
    IN  /\ rows[1] = Header
        /\ Len(rows) - 1 = Cardinality(StrategyPaths) + Cardinality(BareCriterionPaths)
                           + Cardinality(BareHarmPaths) + Cardinality(BareObservations)
        /\ Range(Tail(rows)) = ExpectedRows
        /\ SinglePath =>
              Tail(rows) = <<<<observations[1].content, harms[1].content,
                               criteria[1].content, strategies[1].content>>>>

\* C12, as stated: one row per strategy in memory, plus one row for each
\* observation without harms, each harm without criteria and each criterion
\* without strategies.
C12_OneRowPerStrategy ==
    Len(MatrixRows) - 1 =
        Len(strategies)
        + Cardinality(BareObservations)
        + Cardinality({j \in 1..Len(harms) : getCriteriaForHarm(harms[j].id) = <<>>})
        + Cardinality({k \in 1..Len(criteria) :
                          getStrategiesForCriterion(criteria[k].id) = <<>>})

\* A copy of a matrix with a row of four texts, a row that ends after the
\* harm and a row of the observation alone.
C12_Witness ==
    /\ IsSome(clipboard)
    /\ Get(clipboard).plain = Plain(MatrixRows)
    /\ Cardinality(StrategyPaths) >= 1
    /\ Cardinality(BareHarmPaths) = 1
    /\ Cardinality(BareObservations) = 1
    /\ Len(getHarmsForObservation(FirstObs)) = 2

\* The harms none of whose observation ids is the id of an observation in
\* memory.
Orphans ==
    {h \in Range(harms) :
        \A o \in Range(observations) : o.id \notin h.observationIds}

\* A row made of an observation in memory and of nothing but a harm of it, a
\* criterion of that harm and a strategy of that criterion.
RowReachable(r) ==
    \E o \in Range(observations) :
        /\ r[1] = o.content
        /\ \/ r[2] = <<>> /\ r[3] = <<>> /\ r[4] = <<>>
           \/ \E h \in Range(harms) \ Orphans :
                 /\ o.id \in h.observationIds
                 /\ r[2] = h.content
                 /\ \/ r[3] = <<>> /\ r[4] = <<>>
                    \/ \E c \in Range(criteria) :
                          /\ c.harmId = h.id
                          /\ r[3] = c.content
                          /\ \/ r[4] = <<>>
                             \/ \E st \in Range(strategies) :
                                   st.criterionId = c.id /\ r[4] = st.content

\* The texts of the orphans and of what hangs below them.
OrphanTexts ==
    {h.content : h \in Orphans}
    \cup {c.content : c \in {c \in Range(criteria) :
                                 \E h \in Orphans : c.harmId = h.id}}
    \cup {st.content : st \in {st \in Range(strategies) :
              \E c \in Range(criteria), h \in Orphans :
                  st.criterionId = c.id /\ c.harmId = h.id}}

OrphansUnreachable ==
    /\ \A o \in Range(observations) :
          Range(getHarmsForObservation(o.id)) \cap Orphans = {}
    /\ LET rows == Range(Tail(MatrixRows))
           texts == OrphanTexts
       IN  \A r \in rows :
               /\ RowReachable(r)
               /\ \A k \in 2..4 : r[k] \notin texts

\* A copy of the matrix made while a harm is an orphan shows its feedback and
\* no error banner.
CopyCompletes ==
    (copyTimers' = copyTimers + 1 /\ Orphans # {}) =>
        /\ copyFeedback' = Some("Copied matrix")
        /\ IsSome(clipboard')
        /\ UNCHANGED bannerVars

\* C32: a harm none of whose observations is in memory is listed for no
\* observation, neither it nor its criteria and strategies are in a row of the
\* matrix, and the export made in that state completes.
C32_OrphansUnreachable ==
    /\ []OrphansUnreachable
    /\ [][CopyCompletes]_vars

C32_Witness ==
    /\ Len(observations) = 1
    /\ observations[1].id = SecondObs
    /\ Cardinality(Orphans) = 2
    /\ Len(criteria) = 2
    /\ Len(strategies) = 3
    /\ IsSome(clipboard)
    /\ Get(clipboard).plain = Plain(MatrixRows)
    /\ Len(MatrixRows) = 2

----------------------------------------------------------------------------
(* Submitting the new-observation box, whatever it holds *)

SubmitTexts == {<<>>, Blank, PaddedTen}

NextAdd ==
    \/ \E text \in SubmitTexts : handleObservationChange(text)
    \/ \E i \in 1..Len(timers) : coachingTimerFire(i)
    \/ \E k \in 1..Len(controllers) : coachingResponse(k, <<Tip>>)
    \/ handleAddObservation
    \/ \E op \in pending : createObservationResolved(op)
    \/ \E op \in pending : createObservationRejected(op)
    \/ errorTimerFire
    \/ dismissError

SpecAdd == Init /\ [][NextAdd]_vars

\* C13: a submission of input that is empty after trimming changes nothing:
\* no observation is added, no store call is started, and the input text and
\* the coaching state stay as they were.
C13_BlankAddIsNoOp ==
    [][(history'.last.kind = "addNothing" /\ history.last.kind # "addNothing")
        => /\ Trim(newObservation) = <<>>
           /\ UNCHANGED <<db, routeVars, coachVars, treeVars, suggVars, deepVars, asyncVars,
                          projVars>>]_vars

\* Blanks were submitted while an earlier observation of this session is in
\* memory and another create is still awaited.
C13_Witness ==
    /\ history.last.kind = "addNothing"
    /\ newObservation = Blank
    /\ Len(observations) = 1
    /\ pending # {}

----------------------------------------------------------------------------
(* The page and the store client, with and without a store *)

NextLocal ==
    \/ NextTree
    \/ \E operation \in ClientOperations : invokeWithoutStore(operation)

SpecLocal == InitTree /\ [][NextLocal]_vars

\* C14: with no store configured no store-client operation throws, and
\* nothing is persisted.
C14_ClientToleratesNoStore ==
    ~db => /\ history.last.kind # "threw"
           /\ storeObservations = {} /\ storeHarms = {}
           /\ storeCriteria = {} /\ storeStrategies = {}

----------------------------------------------------------------------------
(* Free-text submissions to a store that may reject them *)

SubmitSettles ==
    \/ \E op \in pending : createObservationResolved(op)
    \/ \E op \in pending : createObservationRejected(op)
    \/ \E op \in pending : createHarmResolved(op)
    \/ \E op \in pending : createHarmRejected(op)
    \/ \E op \in pending : createCriterionResolved(op)
    \/ \E op \in pending : createCriterionRejected(op)
    \/ \E op \in pending : createStrategyResolved(op)
    \/ \E op \in pending : createStrategyRejected(op)

NextSubmit ==
    \/ handleObservationChange(PaddedNine)
    \/ handleAddObservation
    \/ \E text \in HarmTexts : typeCustomHarm(FirstObs, text)
    \/ addCustomHarm(FirstObs)
    \/ \E text \in CriterionTexts : typeCustomCriterion(OldHarm, text)
    \/ addCustomCriterion(OldHarm)
    \/ typeCustomStrategy(OldCriterion, StratA \o <<" ">>)
    \/ addCustomStrategy(OldCriterion)
    \/ SubmitSettles

SpecSubmit == InitTree /\ [][NextSubmit]_vars

FailedCreates ==
    {"addObservationFailed", "addHarmFailed", "addCriterionFailed", "addStrategyFailed"}

\* The step is the rejection of a create that a free-text submission issued.
CreateRejected ==
    /\ history'.last # history.last
    /\ history'.last.kind \in FailedCreates

\* The text in the input of the rejected create, after the step.
InputAfterRejection ==
    LET e == history'.last
    IN  CASE e.kind = "addObservationFailed" -> newObservation'
          [] e.kind = "addHarmFailed" -> customHarmInputs'[e.a]
          [] e.kind = "addCriterionFailed" -> customCriterionInputs'[e.a]
          [] e.kind = "addStrategyFailed" -> customStrategyInputs'[e.a]

NothingAddedNoId ==
    /\ UNCHANGED <<observations, harms, criteria, strategies>>
    /\ history'.returned = None

\* C15, as amended: when the store rejects a create issued from one of the
\* four free-text inputs, no entity is added in memory, the handler returns
\* no id, and the input holds the submitted text without its leading and
\* trailing whitespace.
C15_RejectedCreateRestoresTrimmed ==
    [][CreateRejected =>
          /\ NothingAddedNoId
          /\ InputAfterRejection = Trim(history'.last.b[1])]_vars

\* C15, as stated: the input holds exactly the text that was submitted.
C15_RejectedCreateRestoresExactly ==
    [][CreateRejected =>
          /\ NothingAddedNoId
          /\ InputAfterRejection = history'.last.b[1]]_vars

\* A strategy typed with a trailing blank was rejected; its input holds the
\* text without the blank and without the prefix, and the banner is up.
C15_Witness ==
    /\ history.last.kind = "addStrategyFailed"
    /\ history.last.b[1] = StratA \o <<" ">>
    /\ customStrategyInputs[OldCriterion] = StratA
    /\ Len(strategies) = 1
    /\ IsSome(errorMessage)

----------------------------------------------------------------------------
(* Renames, archive toggles and content edits in a project with a full path *)

\* What the user may type as the project's name and as an entity's new text.
NameTexts == {<<"N">>}
EditTexts == {<<"e">>}

\* The project was archived or not when the page was opened.
InitProject ==
    \E archived \in BOOLEAN :
        InitProjectWith(BOOLEAN,
             {ObsDoc(FirstObs, Ten, -3), ObsDoc(SecondObs, Eleven, -2)},
             {HarmDoc(OldHarm, {FirstObs}, HarmA, -1, 0),
              HarmDoc(SharedHarm, {FirstObs, SecondObs}, HarmC, 0, 0)},
             TwoObservations,
             <<[NewHarm(OldHarm, FirstObs, HarmA, -1) EXCEPT !.via = 0],
               [NewHarm(SharedHarm, FirstObs, HarmC, 0)
                   EXCEPT !.observationIds = {FirstObs, SecondObs}]>>,
             <<NewCriterion(OldCriterion, OldHarm, CritA)>>,
             <<NewStrategy(OldStrategy, OldCriterion, HMW, None)>>,
             [FreshProject EXCEPT !.archived = archived])

ProjectSettles ==
    \/ \E op \in pending : saveNameResolved(op)
    \/ \E op \in pending : saveNameRejected(op)
    \/ \E op \in pending : archiveResolved(op)
    \/ \E op \in pending : archiveRejected(op)
    \/ \E op \in pending : updateResolved(op)
    \/ \E op \in pending : updateRejected(op)

NextProject ==
    \/ startEditingName
    \/ \E text \in NameTexts : typeProjectName(text)
    \/ handleSaveProjectName
    \/ handleToggleArchive
    \/ \E title \in EditTexts : handleSaveObservationTitle(FirstObs, title)
    \/ \E content \in EditTexts : handleSaveObservationContent(FirstObs, content)
    \/ \E content \in EditTexts : handleSaveHarmContent(OldHarm, content)
    \/ \E content \in EditTexts : handleSaveCriterionContent(OldCriterion, content)
    \/ \E content \in EditTexts : handleSaveStrategyContent(OldStrategy, content)
    \/ ProjectSettles

SpecProject == InitProject /\ [][NextProject]_vars

\* C17: a toggle of the archived flag flips the flag in memory at once; when
\* its store write fails the flag is set to the value it had before that
\* toggle, and when the write succeeds the flag stays as it is.
C17_ArchiveRollsBackOnFailure ==
    [][/\ (opCount' # opCount /\ history'.last.kind = "toggleArchive") =>
              isArchived' = ~isArchived
       /\ \A op \in pending \ pending' :
              op.kind = "archive" =>
                  IF history'.last.kind = "archiveFailed"
                  THEN isArchived' = op.isArchived
                  ELSE /\ isArchived' = isArchived
                       /\ storeProject'.archived = op.newArchived]_vars

C17_Witness ==
    /\ db
    /\ history.last.kind = "archiveFailed"
    /\ isArchived = storeProject.archived
    /\ storeProject.archived
    /\ pending = {}

\* Everything the page holds in memory about the project and its entities.
memoryVars == <<observations, harms, criteria, strategies, projectName, isArchived,
                isEditingName, errorMessage>>

\* The text a collection in memory holds in this field of the entity id.
FieldInMemory(coll, id, field) ==
    LET list == CASE coll = "observations" -> observations
                  [] coll = "harms" -> harms
                  [] coll = "criteria" -> criteria
                  [] OTHER -> strategies
        i == CHOOSE j \in 1..Len(list) : list[j].id = id
    IN  IF field = "title" THEN Get(list[i].title) ELSE list[i].content

\* C18: when a rename or a content-edit save starts its store write, memory
\* already holds the new value, and a step on which such a write fails leaves
\* everything in memory as it was.
C18_FailedSaveKeepsEdit ==
    [][/\ \A op \in pending' \ pending :
              /\ op.kind = "saveName" => projectName' = op.content
              /\ op.kind = "update" =>
                     FieldInMemory(op.coll, op.target, op.field)' = op.content
       /\ \A op \in pending \ pending' :
              (/\ op.kind \in {"saveName", "update"}
               /\ history'.last.kind \in {"saveNameFailed", "updateFailed"}) =>
                  UNCHANGED memoryVars]_vars

C18_Witness ==
    /\ db
    /\ history.last.kind = "updateFailed"
    /\ pending = {}
    /\ ~isEditingName
    /\ projectName \in NameTexts
    /\ storeProject.name = ProjectTitle
    /\ \E i \in 1..Len(harms) : harms[i].content \in EditTexts
    /\ \A d \in storeHarms : d.content \notin EditTexts

----------------------------------------------------------------------------
(* The cascade on a store that holds two projects *)

\* The documents of the store: this project has a full path and a second
\* observation; or it has observations only; the other project has documents
\* in the first and in the last collection.
InitCascade ==
    \E full \in BOOLEAN :
        InitStoreWith({TRUE},
            {Scoped(ObsDoc(FirstObs, Ten, -3), ThisProject),
             Scoped(ObsDoc(SecondObs, Eleven, -2), ThisProject),
             Scoped(ObsDoc(ThirdObs, Nine, -1), OtherProject)},
            IF full THEN {Scoped(HarmDoc(OldHarm, {FirstObs}, HarmA, -1, 0), ThisProject)}
            ELSE {},
            IF full
            THEN {Scoped(CriterionDoc(NewCriterion(OldCriterion, OldHarm, CritA)),
                         ThisProject)}
            ELSE {},
            {Scoped(StrategyDoc(NewStrategy(SecondStrategy, SecondCriterion, HMW, None)),
                    OtherProject)}
            \cup (IF full
                  THEN {Scoped(StrategyDoc(NewStrategy(OldStrategy, OldCriterion, HMW,
                                                       None)), ThisProject)}
                  ELSE {}),
            <<>>, <<>>, <<>>, <<>>, FreshProject)

NextCascade ==
    \/ deleteProject
    \/ \E op \in pending : getDocsResolved(op)
    \/ \E op \in pending : getDocsRejected(op)
    \/ \E d \in pending : deleteDocResolved(d)
    \/ \E d \in pending : deleteDocRejected(d)
    \/ \E op \in pending : allResolved(op)
    \/ \E op \in pending : projectDeleteResolved(op)
    \/ \E op \in pending : projectDeleteRejected(op)

SpecCascade == InitCascade /\ [][NextCascade]_vars

\* The collections deleteProject works through before it reaches name.
Before(name) ==
    CASE name = "observations" -> {}
      [] name = "harms" -> {"observations"}
      [] name = "criteria" -> {"observations", "harms"}
      [] name = "strategies" -> {"observations", "harms", "criteria"}
      [] OTHER -> {"observations", "harms", "criteria", "strategies"}

\* No document of these collections is scoped to the project.
NoneLeftIn(names) == \A c \in names : ScopedTo(Collection(c), ThisProject) = {}

CascadeStep ==
    /\ \A c \in {"observations", "harms", "criteria", "strategies"} :
          (Collection(c)' # Collection(c)) => NoneLeftIn(Before(c))
    /\ (storeProject' # storeProject) => NoneLeftIn(Before("project"))
    /\ (history'.last.kind = "deleteProjectFailed") => (storeProject' # None)

\* C21: deleteProject removes a document of a collection only when the
\* collections before it hold nothing of the project any more, and the project
\* record only when all four hold nothing of it; once the project record is
\* gone no document scoped to the project remains; and on the step on which
\* deleteProject fails the project record is still present.
C21_CascadeOrder ==
    /\ [][CascadeStep]_vars
    /\ [](storeProject = None => NoneLeftIn(Before("project")))

\* deleteProject has returned after a first call of it had failed: of the
\* store's documents only those of the other project are left.
C21_Witness ==
    /\ storeProject = None
    /\ history.last.kind = "deletedProject"
    /\ history.writeFailed
    /\ storeObservations # {}
    /\ storeStrategies # {}
    /\ storeHarms = {}

----------------------------------------------------------------------------
(* The route on every short completion *)

\* The longest completion text given to the route.
MaxCompletion == 3

\* The characters of a completion: a letter, a space, a line break, a bullet,
\* a digit and a full stop.
CompletionChars == {"a", " ", NL, "-", "1", "."}

Completions == UNION {[1..n -> CompletionChars] : n \in 0..MaxCompletion}

InitRoute ==
    /\ InitPageWith({TRUE}, {}, {}, {}, {}, <<>>, <<>>, <<>>, <<>>, FreshProject)
    /\ request = Some(RequestOf("harms", [observations |-> <<"v">>]))
    /\ filledPrompt = None
    /\ responseText \in Completions
    /\ suggestions = None

NextRoute == POST

SpecRoute == InitRoute /\ [][NextRoute]_vars

Returned == Get(suggestions)

\* C28: the sequence the route returns holds no empty string and no string
\* twice.
C28_NoEmptyNoDuplicate ==
    IsSome(suggestions) =>
        /\ \A i \in 1..Len(Returned) : Returned[i] # <<>>
        /\ \A i, j \in 1..Len(Returned) : Returned[i] = Returned[j] => i = j

----------------------------------------------------------------------------
(* Contents that come from the suggestion route *)

\* An observation without harms, so that its panel of harm suggestions shows.
InitContent ==
    InitWith(BOOLEAN, {ObsDoc(FirstObs, Ten, -3)}, {},
             <<NewObservation(FirstObs, Ten, None, -3)>>, <<>>, <<>>)

NextContent ==
    \/ handleHarmInputFocus(FirstObs)
    \/ \E op \in pending, text \in Completions :
          fetchHarmsResolved(op, ParseSuggestions(text))
    \/ \E sid \in SuggestionIds :
          Offered(harmSuggestions, FirstObs, sid) /\ toggleHarmSuggestion(FirstObs, sid)
    \/ \E op \in pending : toggleOnResolved(op)
    \/ \E op \in pending : toggleOnRejected(op)
    \/ \E text \in HarmTexts : typeCustomHarm(FirstObs, text)
    \/ addCustomHarm(FirstObs)
    \/ \E op \in pending : createHarmResolved(op)
    \/ \E op \in pending : createHarmRejected(op)

SpecContent == InitContent /\ [][NextContent]_vars

\* The contents of the entities in memory and of the documents in the store.
AllContents ==
    {observations[i].content : i \in 1..Len(observations)}
    \cup {harms[i].content : i \in 1..Len(harms)}
    \cup {criteria[i].content : i \in 1..Len(criteria)}
    \cup {strategies[i].content : i \in 1..Len(strategies)}
    \cup {d.content : d \in storeObservations \cup storeHarms}
    \cup {d.content : d \in storeCriteria \cup storeStrategies}

\* C23: the content of every entity, in memory and in the store, is not empty
\* and has no space at either end.
C23_ContentTrimmedNonEmpty ==
    \A content \in AllContents : content # <<>> /\ Trim(content) = content

----------------------------------------------------------------------------
(* The strategy panel of one criterion: fetch, generate more, accept *)

\* What the suggestion service may return for the panel.
PanelResults == FetchResults \cup {<<HarmA, HarmB, HarmC>>}

\* One observation, its harm and the harm's criterion; the criterion has no
\* strategy and no suggestion list yet.
InitPanel ==
    InitWith(BOOLEAN, {ObsDoc(FirstObs, Ten, -3)},
             {HarmDoc(OldHarm, {FirstObs}, HarmA, -1, 0)},
             <<NewObservation(FirstObs, Ten, None, -3)>>,
             <<[NewHarm(OldHarm, FirstObs, HarmA, -1) EXCEPT !.via = 0]>>,
             <<NewCriterion(OldCriterion, OldHarm, CritA)>>)

PanelSuggestionIds ==
    UNION {{strategySuggestions[c][i].id : i \in 1..Len(strategySuggestions[c])} :
              c \in DOMAIN strategySuggestions}

\* The user clicks only what the panel shows.
NextPanel ==
    \/ handleStrategyInputFocus(OldCriterion)
    \/ \E op \in pending, r \in PanelResults : fetchStrategiesResolved(op, r)
    \/ \E op \in pending : fetchStrategiesRejected(op)
    \/ generateMoreStrategySuggestions(OldCriterion)
    \/ \E op \in pending, r \in PanelResults : moreStrategiesResolved(op, r)
    \/ \E op \in pending : moreStrategiesRejected(op)
    \/ \E sid \in PanelSuggestionIds :
          /\ Offered(strategySuggestions, OldCriterion, sid)
          /\ toggleStrategySuggestion(OldCriterion, sid)
    \/ \E op \in pending : toggleStrategyOnResolved(op)
    \/ \E op \in pending : toggleStrategyOnRejected(op)

SpecPanel == InitPanel /\ [][NextPanel]_vars

\* The list of a node, empty when the node has none.
ListOf(sugg, parentId) == IF Has(sugg, parentId) THEN sugg[parentId] ELSE <<>>

IsPrefix(s, t) == Len(s) <= Len(t) /\ SubSeq(t, 1, Len(s)) = s

\* A step in which a generate-more call of the panel returns.
MoreReturns ==
    \E op \in pending : op.kind = "moreStrategies" /\ op \notin pending'

\* A step in which a generate-more request is sent.
MoreIssued ==
    \E op \in pending' : op.kind = "moreStrategies" /\ op \notin pending

PanelStep ==
    /\ MoreReturns =>
          IsPrefix(ListOf(strategySuggestions, OldCriterion),
                   ListOf(strategySuggestions', OldCriterion))
    /\ (MoreReturns /\ history'.last.kind = "moreStrategiesFetched") =>
          LET old == ListOf(strategySuggestions, OldCriterion)
              new == ListOf(strategySuggestions', OldCriterion)
              got == history'.last.b
          IN  /\ Len(new) = Len(old) + Len(got)
              /\ \A i \in 1..Len(got) :
                    /\ new[Len(old) + i].content = got[i]
                    /\ ~new[Len(old) + i].selected
    /\ (MoreReturns /\ history'.last.kind = "moreStrategiesFailed") =>
          strategySuggestions' = strategySuggestions
    /\ MoreIssued => ~Truthy(loadingStrategySuggestions, OldCriterion)

\* C25: when a generate-more call returns, the suggestions it fetched are
\* appended after the node's list, and every suggestion of the list keeps its
\* position, id and selected flag; when the call fails the list is unchanged;
\* no generate-more request is sent while the node's loading flag is set.
C25_GenerateMoreAppends == [][PanelStep]_vars

C25_Witness ==
    /\ history.last.kind = "moreStrategiesFetched"
    /\ Len(ListOf(strategySuggestions, OldCriterion)) = 6
    /\ ListOf(strategySuggestions, OldCriterion)[1].selected

\* The number of unselected suggestions before position p of a list.
UnselectedBefore(list, p) == Cardinality({q \in 1..(p - 1) : ~list[q].selected})

\* C26: the candidates shown for a node hold no selected suggestion: they are
\* the first (at most three) unselected suggestions of the node's list, in
\* list order.
C26_VisibleAreFirstUnselected ==
    LET list == ListOf(strategySuggestions, OldCriterion)
        visible == Visible(strategySuggestions, OldCriterion)
        count == Cardinality({p \in 1..Len(list) : ~list[p].selected})
    IN  /\ \A i \in 1..Len(visible) : ~visible[i].selected
        /\ Len(visible) = (IF count < 3 THEN count ELSE 3)
        /\ \A p \in 1..Len(list) :
              (~list[p].selected /\ UnselectedBefore(list, p) < Len(visible)) =>
                  visible[UnselectedBefore(list, p) + 1] = list[p]

C26_Witness ==
    LET list == ListOf(strategySuggestions, OldCriterion)
    IN  /\ Len(list) >= 5
        /\ list[1].selected
        /\ ~list[2].selected
        /\ list[3].selected
        /\ Len(Visible(strategySuggestions, OldCriterion)) = 3

----------------------------------------------------------------------------
(* Drags of three observations, and the project opened again *)

\* Nothing is persisted without a store.
InitReload ==
    InitWith({TRUE}, {ObsDoc(FirstObs, Ten, -3), ObsDoc(SecondObs, Eleven, -2),
              ObsDoc(ThirdObs, Nine, -1)}, {}, ThreeObservations, <<>>, <<>>)

NextReload ==
    \/ DragSteps
    \/ loadProjectData

SpecReload == InitReload /\ [][NextReload]_vars

\* Every sequence the list call may return is in ascending sort-order where
\* the documents have one.
ListedBySortOrder ==
    \A listed \in getObservations(storeObservations) :
        \A i, j \in 1..Len(listed) :
            (i < j /\ IsSome(listed[i].order) /\ IsSome(listed[j].order)) =>
                ~Less(Get(listed[j].order), Get(listed[i].order))

\* Opening the project again when every reorder has been written shows the
\* sequence that was shown before.
ReloadKeepsSequence ==
    (/\ history'.last.kind = "loaded"
     /\ orderWrites = <<>>
     /\ ~history.writeFailed) =>
        [i \in 1..Len(observations') |-> observations'[i].id]
            = [i \in 1..Len(observations) |-> observations[i].id]

\* C27: the list of a project's observations is in ascending sort-order where
\* the field is present (ties by creation time) and in ascending creation time
\* otherwise, so that opening the project again after a reorder was persisted
\* yields the sequence that was shown in memory.
C27_ListBySortOrder ==
    /\ []ListedBySortOrder
    /\ [][ReloadKeepsSequence]_vars

----------------------------------------------------------------------------
(* Titles: criteria added under one observation, and the user's own title *)

\* The title the user types.
UserTitle == <<"u">>

\* One untitled observation with a harm of its own and no criterion.
InitTitle ==
    InitWith(BOOLEAN, {ObsDoc(FirstObs, Ten, -3)},
             {HarmDoc(OldHarm, {FirstObs}, HarmA, -1, 0)},
             <<NewObservation(FirstObs, Ten, None, -3)>>,
             <<[NewHarm(OldHarm, FirstObs, HarmA, -1) EXCEPT !.via = 0]>>,
             <<>>)

NextTitle ==
    \/ \E text \in CriterionTexts : typeCustomCriterion(OldHarm, text)
    \/ addCustomCriterion(OldHarm)
    \/ \E op \in pending : createCriterionResolved(op)
    \/ \E op \in pending : createCriterionRejected(op)
    \/ \E op \in pending, r \in TitleResults : titleResolved(op, r)
    \/ \E op \in pending : titleRejected(op)
    \/ handleSaveObservationTitle(FirstObs, UserTitle)
    \/ \E op \in pending : updateResolved(op)
    \/ \E op \in pending : updateRejected(op)

SpecTitle == InitTitle /\ [][NextTitle]_vars

\* A step in which a title request returns.
TitleReturns ==
    \E op \in pending : op.kind = "insightTitle" /\ op \notin pending'

\* A step that sends a title request.
TitleRequested ==
    \E op \in pending' : op.kind = "insightTitle" /\ op \notin pending

TitleKept ==
    \A i \in 1..Len(observations) :
        HasTitle(observations[i]) =>
            /\ i <= Len(observations')
            /\ HasTitle(observations'[i])
            /\ TitleReturns => observations'[i].title = observations[i].title

\* C29: the result of a title request does not change the title of an
\* observation that has one when the result is applied, and no step makes a
\* titled observation untitled.
C29_TitleNotOverwritten == [][TitleKept]_vars

\* A step in which createCriterion returns the id of the criterion it wrote.
CriterionStored ==
    /\ \E op \in pending : op.kind = "createCriterion" /\ op \notin pending'
    /\ history'.last.kind = "addedCriterion"

TitleAttempt ==
    /\ (TitleReturns /\ history'.last.kind \in {"titleFailed", "untitled"}) =>
          /\ observations' = observations
          /\ storeObservations' = storeObservations
          /\ UNCHANGED bannerVars
          /\ ~TitleRequested
          /\ \A op \in pending' : op.kind = "update" => op \in pending
    /\ (/\ CriterionStored
        /\ ~HasTitle(observations[1])) =>
          \E op \in pending' :
              op.kind = "insightTitle" /\ op \notin pending /\ op.target = FirstObs

\* C30: when a title request fails or returns no text the title stays unset,
\* no banner is shown and no request or write is started; the next criterion
\* added under the observation starts a new title request.
C30_FailedTitleLeavesEligible == [][TitleAttempt]_vars

C30_Witness ==
    /\ db
    /\ ~HasTitle(observations[1])
    /\ history.last.kind = "addedCriterion"
    /\ Cardinality(storeCriteria) = 2
    /\ \E op \in pending : op.kind = "insightTitle" /\ op.n = 2
    /\ \A op \in pending : op.kind = "insightTitle" => op.n = 2
    /\ errorMessage = None

----------------------------------------------------------------------------
(* The first criterion of an observation, typed or accepted, and its title *)

CriterionSuggestionIds ==
    UNION {{criterionSuggestions[h][i].id : i \in 1..Len(criterionSuggestions[h])} :
              h \in DOMAIN criterionSuggestions}

NextAutoTitle ==
    \/ \E text \in CriterionTexts : typeCustomCriterion(OldHarm, text)
    \/ addCustomCriterion(OldHarm)
    \/ \E op \in pending : createCriterionResolved(op)
    \/ \E op \in pending : createCriterionRejected(op)
    \/ handleCriterionInputFocus(OldHarm)
    \/ \E op \in pending, r \in FetchResults : fetchCriteriaResolved(op, r)
    \/ \E op \in pending : fetchCriteriaRejected(op)
    \/ \E sid \in CriterionSuggestionIds :
          /\ Offered(criterionSuggestions, OldHarm, sid)
          /\ toggleCriterionSuggestion(OldHarm, sid)
    \/ \E op \in pending : toggleCriterionOnResolved(op)
    \/ \E op \in pending : toggleCriterionOnRejected(op)
    \/ \E op \in pending, r \in TitleResults : titleResolved(op, r)
    \/ \E op \in pending : titleRejected(op)
    \/ handleSaveObservationTitle(FirstObs, UserTitle)
    \/ \E op \in pending : updateResolved(op)
    \/ \E op \in pending : updateRejected(op)

SpecAutoTitle == InitTitle /\ [][NextAutoTitle]_vars

\* A step that puts a new criterion into memory.
CriterionAdded ==
    {criteria'[i].id : i \in 1..Len(criteria')}
        \ {criteria[i].id : i \in 1..Len(criteria)} # {}

TitleOnFirstCriterion ==
    CriterionAdded => (TitleRequested <=> ~HasTitle(observations[1]))

\* C31: a step that adds a criterion, typed or accepted from the suggestions,
\* under the first harm of an observation sends a title request when the
\* observation has no title, and sends none when it has one.
C31_TitleRequestedOnCriterionAdd == [][TitleOnFirstCriterion]_vars

----------------------------------------------------------------------------
(* Two observations whose harm suggestions are fetched and accepted side by side *)

NextNodes ==
    \/ \E o \in ObservationIds : handleHarmInputFocus(o)
    \/ \E op \in pending, r \in FetchResults : fetchHarmsResolved(op, r)
    \/ \E op \in pending : fetchHarmsRejected(op)
    \/ \E o \in ObservationIds, sid \in SuggestionIds :
          Offered(harmSuggestions, o, sid) /\ toggleHarmSuggestion(o, sid)
    \/ \E op \in pending : toggleOnResolved(op)
    \/ \E op \in pending : toggleOnRejected(op)

SpecNodes == InitOrder /\ [][NextNodes]_vars

\* What the page holds for one node: its list, if it has one, and its
\* loading flag, if it has one.
NodeState(sugg, loadingMap, o) ==
    <<IF Has(sugg, o) THEN Some(sugg[o]) ELSE None,
      IF Has(loadingMap, o) THEN Some(loadingMap[o]) ELSE None>>

OtherNodesKept ==
    \A o \in {FirstObs, SecondObs} :
        o # history'.last.a =>
            NodeState(harmSuggestions', loadingHarmSuggestions', o)
                = NodeState(harmSuggestions, loadingHarmSuggestions, o)

\* C33: a step that starts, completes or fails a fetch for one node, or
\* toggles a suggestion under it, leaves the list, the selected flags and the
\* loading flag of every other node as they were, whatever is in flight.
C33_NodesIndependent == [][OtherNodesKept]_vars

\* A suggestion was accepted under one node while the fetch of the other node
\* was in flight.
C33_Witness ==
    /\ history.last.kind = "toggledOn"
    /\ history.last.a = FirstObs
    /\ \E i \in 1..Len(harmSuggestions[FirstObs]) : harmSuggestions[FirstObs][i].selected
    /\ ~Has(harmSuggestions, SecondObs)
    /\ Truthy(loadingHarmSuggestions, SecondObs)
    /\ \E op \in pending : op.kind = "fetchHarms" /\ op.target = SecondObs

----------------------------------------------------------------------------
(* The prompts of the five suggestion types, with the contexts the page sends *)

\* The values a context field may carry: nothing, plain words, and a text
\* that holds the characters $&.
ContextValues == {<<>>, <<"v">>, <<"w">>, <<"$&">>}

\* The bodies fetchSuggestions posts, by the fields each caller passes.
Requests ==
    {RequestOf("harms", [observations |-> a]) : a \in ContextValues}
    \cup {RequestOf("criteria", [harm |-> a, observations |-> b]) :
             a \in ContextValues, b \in ContextValues}
    \cup {RequestOf("strategies", [criterion |-> a, harm |-> b]) :
             a \in ContextValues, b \in ContextValues}
    \cup {RequestOf("observationCoaching", [observation |-> a]) : a \in ContextValues}
    \cup {RequestOf("insightTitle", [observation |-> a, harm |-> b, criterion |-> c]) :
             a \in ContextValues, b \in ContextValues, c \in ContextValues}

InitPrompt ==
    /\ InitPageWith({TRUE}, {}, {}, {}, {}, <<>>, <<>>, <<>>, <<>>, FreshProject)
    /\ request \in {Some(r) : r \in Requests}
    /\ filledPrompt = None
    /\ responseText = <<"a">>
    /\ suggestions = None

NextPrompt == POST

SpecPrompt == InitPrompt /\ [][NextPrompt]_vars

ContextFields == {"observations", "observation", "harm", "criterion"}

\* The field a token is the placeholder of, if it is one.
FieldOf(token) ==
    IF \E name \in ContextFields : token = "{{" \o name \o "}}"
    THEN Some(CHOOSE name \in ContextFields : token = "{{" \o name \o "}}")
    ELSE None

\* The template with every placeholder of a supplied field replaced by the
\* value of the field.
ExpectedPrompt(r) ==
    Concat([i \in 1..Len(r.prompt) |->
               IF /\ IsSome(FieldOf(r.prompt[i]))
                  /\ Supplied(r.context, Get(FieldOf(r.prompt[i])))
               THEN r.context[Get(FieldOf(r.prompt[i]))]
               ELSE <<r.prompt[i]>>])

\* C34: in the prompt sent to the completion service every placeholder of the
\* template for which the caller supplied a non-empty value is replaced by
\* that value.
C34_PlaceholdersFilled ==
    IsSome(filledPrompt) => Get(filledPrompt) = ExpectedPrompt(Get(request))

----------------------------------------------------------------------------
(* Strategies typed by the user *)

\* What the user types into the strategy input of the criterion: a text
\* without the prefix, the prefix alone, a text with the prefix and spaces
\* around it, the prefix in lower case, and a space.
FreeStrategyTexts ==
    {StratA \o <<" ">>, HMW, <<" ">> \o HMW \o StratA \o <<" ">>,
     <<"h", "m", "w">>, <<" ">>}

NextStrategy ==
    \/ \E text \in FreeStrategyTexts : typeCustomStrategy(OldCriterion, text)
    \/ addCustomStrategy(OldCriterion)
    \/ \E op \in pending : createStrategyResolved(op)
    \/ \E op \in pending : createStrategyRejected(op)
    \/ dismissError

SpecStrategy == InitPanel /\ [][NextStrategy]_vars

\* Every strategy, in memory and in the store, starts with HMW.
AllStartWithHMW ==
    /\ \A i \in 1..Len(strategies) : SubSeq(strategies[i].content, 1, 3) = HMW
    /\ \A d \in storeStrategies : SubSeq(d.content, 1, 3) = HMW

\* The content the strategy typed as  raw  is to have.
StoredAs(raw, content) ==
    LET text == Trim(raw) IN
    IF Len(text) >= 3 /\ SubSeq(text, 1, 3) = HMW
    THEN content = text
    ELSE content = <<"H", "M", "W", " ">> \o text

\* A step that adds or fails to add the strategy typed into the input.
FreeTextStep ==
    /\ (~db /\ opCount' = opCount + 1 /\ history'.last.kind = "addedStrategy") =>
           StoredAs(customStrategyInputs[OldCriterion],
                    strategies'[Len(strategies')].content)
    /\ \A op \in pending \ pending' :
           /\ history'.last.kind = "addedStrategy" =>
                 /\ StoredAs(op.raw, strategies'[Len(strategies')].content)
                 /\ \E d \in storeStrategies' \ storeStrategies :
                        StoredAs(op.raw, d.content)
           /\ history'.last.kind = "addStrategyFailed" =>
                 /\ customStrategyInputs'[OldCriterion] = Trim(op.raw)
                 /\ strategies' = strategies
                 /\ storeStrategies' = storeStrategies

\* C35: a strategy created from typed text starts with HMW: the trimmed text
\* is stored with "HMW " before it unless it starts with HMW, and then it is
\* stored as it is; when the create fails the input gets the trimmed text
\* back, without the prefix.
C35_FreeTextStrategyPrefixed == []AllStartWithHMW /\ [][FreeTextStep]_vars

\* A text without the prefix was stored with it, and a second create of the
\* same text failed and put the text back into the input.
C35_Witness ==
    /\ db
    /\ history.last.kind = "addStrategyFailed"
    /\ customStrategyInputs[OldCriterion] = StratA
    /\ \E i \in 1..Len(strategies) : strategies[i].content = HMW \o <<" ">> \o StratA
    /\ \E d \in storeStrategies : d.content = HMW \o <<" ">> \o StratA

----------------------------------------------------------------------------
(* Text changes too short to be coached, checked under SpecCoach *)

\* The trimmed text has fewer characters than coaching asks for.
TooShort(text) == Len(Trim(text)) < MinCoachingLength

\* No timer is pending and no request that was not cancelled is in flight.
CoachingIdle ==
    /\ \A i \in 1..Len(timers) : timers[i].state # "armed"
    /\ \A k \in 1..Len(controllers) :
          controllers[k].settled \/ controllers[k].aborted

\* While the box holds a short text nothing of the coaching loop is active.
ShortTextQuiet ==
    TooShort(newObservation) =>
        coachingText = None /\ ~loadingCoaching /\ CoachingIdle

\* A text change (no add: no write is started and nothing is recorded) to a
\* short text.
ShortChange ==
    /\ newObservation' # newObservation
    /\ TooShort(newObservation')
    /\ UNCHANGED <<history, asyncVars>>

ShortChangeCancels ==
    ShortChange =>
        /\ coachingText' = None
        /\ ~loadingCoaching'
        /\ Len(timers') = Len(timers)
        /\ Len(controllers') = Len(controllers)
        /\ \A i \in 1..Len(timers') : timers'[i].state # "armed"
        /\ \A k \in 1..Len(controllers') :
              controllers'[k].settled \/ controllers'[k].aborted

----------------------------------------------------------------------------
(* The loading indicator of the coaching loop, checked under SpecCoach *)

TimerPending == \E i \in 1..Len(timers) : timers[i].state = "armed"

RequestInFlight ==
    \E k \in 1..Len(controllers) :
        ~controllers[k].settled /\ ~controllers[k].aborted

\* C38: while the loading indicator of the coaching is on, a debounce timer is
\* pending or a coaching request that was not cancelled is in flight; so when
\* no timer is pending and the last request has settled, by an answer or by an
\* error, the indicator is off.
C38_LoadingHasCause == loadingCoaching => (TimerPending \/ RequestInFlight)

\* The indicator is on for a request that was cancelled by a later change,
\* whose timer is still pending.
C38_Witness ==
    /\ loadingCoaching
    /\ TimerPending
    /\ ~RequestInFlight
    /\ \E k \in 1..Len(controllers) : controllers[k].aborted

----------------------------------------------------------------------------
(* The archived flag after its writes have settled, checked under SpecProject *)

ArchiveWritesSettled == \A op \in pending : op.kind # "archive"

\* C37: when every write started by an archive toggle has settled, by success
\* or by failure and in whatever order, the archived flag in memory is the
\* archived value of the project document.
C37_ArchivedAgreesWithStore ==
    (db /\ ArchiveWritesSettled) => isArchived = storeProject.archived

----------------------------------------------------------------------------
(* A suggestion list that came back empty *)

\* The harm column of the detail panel shows the input and the suggestion
\* panel of the observation: the panel is open on it and it has no harm.
HarmPanelShown(obsId) ==
    detailItem = obsId /\ getHarmsForObservation(obsId) = <<>>

\* {!loading && visible.length > 0 && <button onClick={onGenerateMore}>}
MoreOffered(sugg, loadingMap, parentId) ==
    ~Truthy(loadingMap, parentId) /\ Visible(sugg, parentId) # <<>>

\* The first observation has a harm, the second has none.  The user opens and
\* closes the detail panel, puts the focus back into the harm input, clicks
\* "more suggestions" where the panel offers it, and deletes the harm shown.
NextEmpty ==
    \/ \E o \in ObservationIds : openDetail(o)
    \/ closeDetail
    \/ \E o \in ObservationIds : HarmPanelShown(o) /\ handleHarmInputFocus(o)
    \/ \E o \in ObservationIds :
          /\ HarmPanelShown(o)
          /\ MoreOffered(harmSuggestions, loadingHarmSuggestions, o)
          /\ generateMoreHarmSuggestions(o)
    \/ \E op \in pending, r \in FetchResults : fetchHarmsResolved(op, r)
    \/ \E op \in pending : fetchHarmsRejected(op)
    \/ \E op \in pending, r \in FetchResults : moreHarmsResolved(op, r)
    \/ \E op \in pending : moreHarmsRejected(op)
    \/ \E h \in HarmIds(harms) :
          /\ detailItem # 0 /\ getHarmsForObservation(detailItem) # <<>>
          /\ getHarmsForObservation(detailItem)[1].id = h
          /\ handleDeleteHarm(h)
    \/ \E op \in pending : deleteHarmResolved(op)
    \/ \E op \in pending : deleteHarmRejected(op)

SpecEmpty == InitSuggest /\ [][NextEmpty]_vars

\* The list of the node is there and is empty.
ResolvedEmpty(obsId) == Has(harmSuggestions, obsId) /\ harmSuggestions[obsId] = <<>>

\* A focus of the node's input or a click on the node's panel would send a
\* suggestion request.
RequestOffered(obsId) ==
    \/ FocusStartsFetch(harmSuggestions, loadingHarmSuggestions, observations, obsId)
    \/ MoreOffered(harmSuggestions, loadingHarmSuggestions, obsId)

\* C39: once the suggestion list of a node has resolved to the empty list, no
\* user action on the node sends a suggestion request any more: a focus finds
\* the list present and the panel, having nothing to show, does not offer
\* "more suggestions".  Stated of every step taken while the list is empty:
\* after it no request is offered on the node.
C39_EmptyListIsFinal ==
    [][\A o \in ObservationIds : ResolvedEmpty(o) => ~RequestOffered(o)']_vars

====
